---- MODULE Spec2Model ----
(***************************************************************************)
(* Verification model of the Faster R-CNN decision pipeline in             *)
(* src/modeling_frcnn.py: Box2BoxTransform, Matcher, AnchorGenerator,      *)
(* box clipping and pairwise IoU / IoA.                                    *)
(*                                                                         *)
(* Numbers.  The code computes in IEEE floating point.  The model computes *)
(* in exact extended rationals: a number is a pair <<n, d>>, d > 0 in      *)
(* lowest terms for a finite value n/d, <<1,0>> for +inf, <<-1,0>> for     *)
(* -inf and <<0,0>> for NaN.  Rounding is not modelled; overflow to        *)
(* infinity and the propagation of inf/NaN are.                            *)
(***************************************************************************)
EXTENDS Integers, Sequences, FiniteSets, TLC

VARIABLES
    pc,             \* position of the modelled call
    error,          \* exception raised by the modelled call, "none" if none
    weights,        \* Box2BoxTransform.weights
    src_boxes,      \* get_deltas / apply_deltas: boxes, one row per box
    target_boxes,   \* get_deltas: target boxes
    deltas,         \* result of get_deltas, argument of apply_deltas
    pred_boxes,     \* result of apply_deltas
    matcher_args,   \* arguments of Matcher.__init__
    matcher,        \* the constructed Matcher (thresholds, labels, flag)
    match_quality_matrix,   \* argument of Matcher.__call__, M x N
    matches,        \* Matcher.__call__ result: 0-based ground-truth index
    match_labels,   \* Matcher.__call__ result: label per prediction
    anchor_cfg,     \* cfg.MODEL.ANCHOR_GENERATOR: SIZES, ASPECT_RATIOS, OFFSET
    input_shape,    \* AnchorGenerator.__init__ input_shape: stride per level
    generator,      \* the constructed AnchorGenerator
    grid_sizes,     \* grid_anchors argument: (height, width) per level
    anchors,        \* grid_anchors result: list of boxes per level
    tensor,         \* _clip_box: the box tensor, clipped in place
    box_size,       \* _clip_box: (height, width)
    clip_history,   \* the tensor as it was before each _clip_box call
    boxes1,         \* pairwise_iou / pairwise_ioa: first box list
    boxes2,         \* pairwise_iou / pairwise_ioa: second box list
    iou,            \* pairwise_iou(boxes1, boxes2), N x M
    iou_swapped,    \* pairwise_iou(boxes2, boxes1), M x N
    ioa,            \* pairwise_ioa(boxes1, boxes2), N x M
    nms_boxes,      \* batched_nms: boxes, one row per box
    nms_scores,     \* batched_nms: scores
    nms_idxs,       \* batched_nms: idxs, the group id of each box
    iou_threshold,  \* batched_nms: iou_threshold
    keep,           \* batched_nms result: kept 0-based indices
    keep_loop,      \* result of the per-group loop branch on the same input
    keep_again,     \* batched_nms result on the rows selected by keep
    proposals,      \* find_top_rpn_proposals: boxes per level, image, anchor
    pred_objectness_logits, \* find_top_rpn_proposals: logits, same layout
    image_sizes,    \* images.image_sizes: (h, w) per image
    topk_args,      \* nms_thresh, pre_nms_topk, post_nms_topk, min_box_side_len, training
    topk_idx,       \* per level and image, the selected 0-based columns
    topk_scores,    \* per image, the selected scores of all levels
    topk_proposals, \* per image, the selected boxes of all levels
    level_ids,      \* level id of every column of topk_scores
    results,        \* find_top_rpn_proposals result: one dict per image
    result_levels,  \* per image, lvl[keep]: the level of every returned row
    survivors,      \* per image, the rows batched_nms kept: (box, score, level)
    rpn_cfg,        \* cfg.MODEL.RPN and cfg.MODEL.PROPOSAL_GENERATOR
    rpn,            \* the RPN module: its mode and the fields __init__ sets
    losses,         \* RPN.forward: the returned loss mapping
    rpn_out,        \* RPN.forward: the returned proposals, one per image
    rpn_trace,      \* RPN.forward: the loss-path functions entered, in order
    box_lists,      \* assign_boxes_to_levels: one box list per image
    level_args,     \* min_level, max_level, canonical_box_size, canonical_level
    level_assignments,  \* assign_boxes_to_levels result: level index per box
    pool_args,      \* ROIPooler.__init__: scales, canonical_box_size, canonical_level
    pooler,         \* the ROIPooler object: the fields __init__ sets
    pool_x,         \* ROIPooler.forward: the feature maps, one per level
    pool_box_lists, \* ROIPooler.forward: one box list per image
    pooler_fmt_boxes,   \* ROIPooler.forward: rows (batch index, x1, y1, x2, y2)
    pool_levels,    \* ROIPooler.forward: level_assignments
    pool_level,     \* ROIPooler.forward: position of the loop over the levels
    pool_output,    \* ROIPooler.forward: the output rows
    pool_writes,    \* ROIPooler.forward: the levels that wrote each output row
    det_in,         \* fast_rcnn_inference_single_image: the arguments
    det_filter_inds,    \* rows (prediction index, class index) above the threshold
    det_boxes,      \* boxes[filter_mask]
    det_scores,     \* scores[filter_mask]
    det_nms_keep,   \* keep as batched_nms returns it
    det_res,        \* the returned result mapping
    det_rows,       \* the returned filter_inds[:, 0]
    ord_in,         \* batched_nms loop: boxes, scores, idxs, iou_threshold
    ord_pending,    \* group ids whose pass of the loop has not begun
    ord_local,      \* group id -> keep of its nms call, not yet written
    result_mask,    \* the rows marked as kept so far
    ord_keep,       \* the returned keep
    ord_trace,      \* the passes in the order they ran
    samp_in,        \* resample: the label vector on entry and the sampling arguments
    pos_idx,        \* subsample_labels: the sampled positive indices
    neg_idx,        \* subsample_labels: the sampled negative indices
    label           \* resample: the label vector, overwritten in place

b2b_vars == <<weights, src_boxes, target_boxes, deltas, pred_boxes>>

matcher_vars == <<matcher_args, matcher, match_quality_matrix, matches, match_labels>>

anchor_vars == <<anchor_cfg, input_shape, generator, grid_sizes, anchors>>

clip_vars == <<tensor, box_size, clip_history>>

iou_vars == <<boxes1, boxes2, iou, iou_swapped, ioa>>

nms_vars == <<nms_boxes, nms_scores, nms_idxs, iou_threshold, keep, keep_loop, keep_again>>

\* the components of the proposal stage
topk_vars == <<proposals, pred_objectness_logits, image_sizes, topk_args, topk_idx,
               topk_scores, topk_proposals, level_ids, results, result_levels, survivors>>

rpn_vars == <<rpn_cfg, rpn, losses, rpn_out, rpn_trace>>

level_vars == <<box_lists, level_args, level_assignments>>

pool_vars == <<pool_args, pooler, pool_x, pool_box_lists, pooler_fmt_boxes, pool_levels,
               pool_level, pool_output, pool_writes>>

det_vars == <<det_in, det_filter_inds, det_boxes, det_scores, det_nms_keep, det_res, det_rows>>

ord_vars == <<ord_in, ord_pending, ord_local, result_mask, ord_keep, ord_trace>>

samp_vars == <<samp_in, pos_idx, neg_idx, label>>

\* the components added for the box head, the loop of batched_nms and the
\* label sampling
late_vars == <<pool_vars, det_vars, ord_vars, samp_vars>>

ext_vars == <<nms_vars, topk_vars, rpn_vars, level_vars, late_vars>>

core_vars == <<b2b_vars, matcher_vars, anchor_vars, clip_vars, iou_vars>>

early_vars == <<core_vars, nms_vars, topk_vars, rpn_vars, level_vars>>

vars == <<pc, error, b2b_vars, matcher_vars, anchor_vars, clip_vars, iou_vars, ext_vars>>

\* values of a component's variables in a specification that does not use it
B2BIdle ==
    /\ weights = <<>>
    /\ src_boxes = <<>>
    /\ target_boxes = <<>>
    /\ deltas = <<>>
    /\ pred_boxes = <<>>

MatcherIdle ==
    /\ matcher_args = <<>>
    /\ matcher = <<>>
    /\ match_quality_matrix = <<>>
    /\ matches = <<>>
    /\ match_labels = <<>>

AnchorIdle ==
    /\ anchor_cfg = <<>>
    /\ input_shape = <<>>
    /\ generator = <<>>
    /\ grid_sizes = <<>>
    /\ anchors = <<>>

ClipIdle ==
    /\ tensor = <<>>
    /\ box_size = <<>>
    /\ clip_history = <<>>

IouIdle ==
    /\ boxes1 = <<>>
    /\ boxes2 = <<>>
    /\ iou = <<>>
    /\ iou_swapped = <<>>
    /\ ioa = <<>>

NmsIdle ==
    /\ nms_boxes = <<>>
    /\ nms_scores = <<>>
    /\ nms_idxs = <<>>
    /\ iou_threshold = <<>>
    /\ keep = <<>>
    /\ keep_loop = <<>>
    /\ keep_again = <<>>

TopkIdle ==
    /\ proposals = <<>>
    /\ pred_objectness_logits = <<>>
    /\ image_sizes = <<>>
    /\ topk_args = <<>>
    /\ topk_idx = <<>>
    /\ topk_scores = <<>>
    /\ topk_proposals = <<>>
    /\ level_ids = <<>>
    /\ results = <<>>
    /\ result_levels = <<>>
    /\ survivors = <<>>

RpnIdle ==
    /\ rpn_cfg = <<>>
    /\ rpn = <<>>
    /\ losses = <<>>
    /\ rpn_out = <<>>
    /\ rpn_trace = <<>>

LevelIdle ==
    /\ box_lists = <<>>
    /\ level_args = <<>>
    /\ level_assignments = <<>>

PoolIdle ==
    /\ pool_args = <<>>
    /\ pooler = <<>>
    /\ pool_x = <<>>
    /\ pool_box_lists = <<>>
    /\ pooler_fmt_boxes = <<>>
    /\ pool_levels = <<>>
    /\ pool_level = 0
    /\ pool_output = <<>>
    /\ pool_writes = <<>>

DetIdle ==
    /\ det_in = <<>>
    /\ det_filter_inds = <<>>
    /\ det_boxes = <<>>
    /\ det_scores = <<>>
    /\ det_nms_keep = <<>>
    /\ det_res = <<>>
    /\ det_rows = <<>>

OrdIdle ==
    /\ ord_in = <<>>
    /\ ord_pending = {}
    /\ ord_local = <<>>
    /\ result_mask = <<>>
    /\ ord_keep = <<>>
    /\ ord_trace = <<>>

SampIdle ==
    /\ samp_in = <<>>
    /\ pos_idx = <<>>
    /\ neg_idx = <<>>
    /\ label = <<>>

LateIdle == PoolIdle /\ DetIdle /\ OrdIdle /\ SampIdle

ExtIdle == NmsIdle /\ TopkIdle /\ RpnIdle /\ LevelIdle /\ LateIdle

CoreIdle == B2BIdle /\ MatcherIdle /\ AnchorIdle /\ ClipIdle /\ IouIdle

EarlyIdle == CoreIdle /\ NmsIdle /\ TopkIdle /\ RpnIdle /\ LevelIdle

(***************************************************************************)
(* Extended rational arithmetic (IEEE semantics without rounding)          *)
(***************************************************************************)
Abs(i) == IF i < 0 THEN -i ELSE i

Sign(i) == IF i > 0 THEN 1 ELSE IF i < 0 THEN -1 ELSE 0

RECURSIVE GCD(_, _)
GCD(a, b) == IF b = 0 THEN a ELSE GCD(b, a % b)

Norm(n, d) ==
    IF d = 0 THEN <<Sign(n), 0>>
    ELSE LET g == GCD(Abs(n), Abs(d))
             s == Sign(d)
         IN  <<(s * n) \div g, (s * d) \div g>>

R(i) == <<i, 1>>

NaN == <<0, 0>>

PosInf == <<1, 0>>

NegInf == <<-1, 0>>

Half == <<1, 2>>

IsNaN(a) == a = NaN

IsInf(a) == a[2] = 0 /\ a[1] # 0

IsFinite(a) == a[2] # 0

FNeg(a) == <<-a[1], a[2]>>

FMul(a, b) == Norm(a[1] * b[1], a[2] * b[2])

FRecip(a) ==
    IF a[1] = 0 THEN (IF a[2] = 0 THEN NaN ELSE PosInf)
    ELSE IF a[2] = 0 THEN R(0)
    ELSE Norm(a[2], a[1])

FDiv(a, b) == FMul(a, FRecip(b))

FAdd(a, b) ==
    IF IsNaN(a) \/ IsNaN(b) THEN NaN
    ELSE IF IsInf(a) THEN (IF IsInf(b) /\ b # a THEN NaN ELSE a)
    ELSE IF IsInf(b) THEN b
    ELSE Norm(a[1] * b[2] + b[1] * a[2], a[2] * b[2])

FSub(a, b) == FAdd(a, FNeg(b))

\* a < b; false when either side is NaN
FLess(a, b) ==
    /\ ~IsNaN(a)
    /\ ~IsNaN(b)
    /\ a # b
    /\ IF IsInf(a) THEN a = NegInf
       ELSE IF IsInf(b) THEN b = PosInf
       ELSE a[1] * b[2] < b[1] * a[2]

FGreater(a, b) == FLess(b, a)

FLeq(a, b) == ~IsNaN(a) /\ ~IsNaN(b) /\ ~FLess(b, a)

FGeq(a, b) == FLeq(b, a)

FMin(a, b) == IF IsNaN(a) \/ IsNaN(b) THEN NaN ELSE IF FLess(b, a) THEN b ELSE a

FMax(a, b) == IF IsNaN(a) \/ IsNaN(b) THEN NaN ELSE IF FLess(a, b) THEN b ELSE a

RECURSIVE Pow2(_)
Pow2(k) == IF k = 0 THEN 1 ELSE 2 * Pow2(k - 1)

\* exact on powers of two, the only arguments the model's inputs produce
RECURSIVE Log2(_)
Log2(n) == IF n <= 1 THEN 0 ELSE 1 + Log2(n \div 2)

(***************************************************************************)
(* Logarithms are kept in units of ln 2: FLog(2^k) = k.                    *)
(* scale_clamp = ln(1000/16) = 5.9658 ln 2 lies strictly between the logs  *)
(* of 32 and 64; its exponential is 1000/16 = 125/2.                       *)
(***************************************************************************)
SCALE_CLAMP == <<2983, 500>>

FLog(a) ==
    IF IsNaN(a) \/ a[1] < 0 THEN NaN
    ELSE IF a = PosInf THEN PosInf
    ELSE IF a[1] = 0 THEN NegInf
    ELSE R(Log2(a[1]) - Log2(a[2]))

FExp(l) ==
    IF IsNaN(l) THEN NaN
    ELSE IF l = PosInf THEN PosInf
    ELSE IF l = NegInf THEN R(0)
    ELSE IF l = SCALE_CLAMP THEN <<125, 2>>
    ELSE IF l[1] >= 0 THEN R(Pow2(l[1]))
    ELSE <<1, Pow2(-l[1])>>

\* torch.clamp(x, max=hi)
ClampMax(x, hi) == IF IsNaN(x) THEN NaN ELSE IF FGreater(x, hi) THEN hi ELSE x

(***************************************************************************)
(* Box2BoxTransform                                                        *)
(***************************************************************************)
\* deltas of one (source, target) row
GetDeltasRow(w, s, t) ==
    LET src_widths     == FSub(s[3], s[1])
        src_heights    == FSub(s[4], s[2])
        src_ctr_x      == FAdd(s[1], FMul(Half, src_widths))
        src_ctr_y      == FAdd(s[2], FMul(Half, src_heights))
        target_widths  == FSub(t[3], t[1])
        target_heights == FSub(t[4], t[2])
        target_ctr_x   == FAdd(t[1], FMul(Half, target_widths))
        target_ctr_y   == FAdd(t[2], FMul(Half, target_heights))
        dx == FDiv(FMul(w[1], FSub(target_ctr_x, src_ctr_x)), src_widths)
        dy == FDiv(FMul(w[2], FSub(target_ctr_y, src_ctr_y)), src_heights)
        dw == FMul(w[3], FLog(FDiv(target_widths, src_widths)))
        dh == FMul(w[4], FLog(FDiv(target_heights, src_heights)))
    IN  <<dx, dy, dw, dh>>

\* the assertion get_deltas makes before it returns
GetDeltasAssert(srcs) ==
    \A i \in 1..Len(srcs) : FGreater(FSub(srcs[i][3], srcs[i][1]), R(0))

get_deltas(w, srcs, tgts) ==
    [i \in 1..Len(srcs) |-> GetDeltasRow(w, srcs[i], tgts[i])]

\* pred_w = torch.exp(dw) * widths, with dw clamped to scale_clamp first
PredSizeNoExp(dl, size) == FMul(ClampMax(dl, SCALE_CLAMP), size)

PredSize(dl, size) == FMul(FExp(ClampMax(dl, SCALE_CLAMP)), size)

\* one row: d holds k stacked 4-tuples of deltas for the single box b
ApplyDeltasRow(w, d, b) ==
    LET widths  == FSub(b[3], b[1])
        heights == FSub(b[4], b[2])
        ctr_x   == FAdd(b[1], FMul(Half, widths))
        ctr_y   == FAdd(b[2], FMul(Half, heights))
        Out(j)  ==
            LET base == 4 * ((j - 1) \div 4)
                dx == FDiv(d[base + 1], w[1])
                dy == FDiv(d[base + 2], w[2])
                dw == FDiv(d[base + 3], w[3])
                dh == FDiv(d[base + 4], w[4])
                pred_ctr_x == FAdd(FMul(dx, widths), ctr_x)
                pred_ctr_y == FAdd(FMul(dy, heights), ctr_y)
                pred_w == PredSize(dw, widths)
                pred_h == PredSize(dh, heights)
                c == (j - 1) % 4
            IN  IF c = 0 THEN FSub(pred_ctr_x, FMul(Half, pred_w))
                ELSE IF c = 1 THEN FSub(pred_ctr_y, FMul(Half, pred_h))
                ELSE IF c = 2 THEN FAdd(pred_ctr_x, FMul(Half, pred_w))
                ELSE FAdd(pred_ctr_y, FMul(Half, pred_h))
    IN  [j \in 1..Len(d) |-> Out(j)]

apply_deltas(w, ds, boxes) ==
    [i \in 1..Len(ds) |-> ApplyDeltasRow(w, ds[i], boxes[i])]

(***************************************************************************)
(* Matcher                                                                 *)
(***************************************************************************)
Range(f) == { f[i] : i \in DOMAIN f }

\* Matcher.__init__: the exception it raises on these arguments, or "none"
MatcherInitError(thresholds, labels) ==
    IF Len(thresholds) = 0 THEN "IndexError"
    ELSE LET ext == <<NegInf>> \o thresholds \o <<PosInf>>
         IN  IF /\ FGreater(thresholds[1], R(0))
                /\ \A k \in 1..(Len(ext) - 1) : FLeq(ext[k], ext[k + 1])
                /\ \A k \in 1..Len(labels) : labels[k] \in {-1, 0, 1}
                /\ Len(labels) = Len(ext) - 1
             THEN "none"
             ELSE "AssertionError"

\* the object Matcher.__init__ builds
MatcherObject(thresholds, labels, allow) ==
    [thresholds |-> <<NegInf>> \o thresholds \o <<PosInf>>,
     labels |-> labels,
     allow_low_quality_matches |-> allow]

\* the value at row g (1-based), column n (1-based)
Q(mqm, g, n) == mqm.val[g][n]

\* match_quality_matrix.max(dim=0) values: the maximum of column n
RECURSIVE ColMaxUpTo(_, _, _)
ColMaxUpTo(mqm, n, g) ==
    IF g = 1 THEN Q(mqm, 1, n) ELSE FMax(ColMaxUpTo(mqm, n, g - 1), Q(mqm, g, n))

ColMax(mqm, n) == ColMaxUpTo(mqm, n, mqm.rows)

\* match_quality_matrix.max(dim=1) values: the maximum of row g
RECURSIVE RowMaxUpTo(_, _, _)
RowMaxUpTo(mqm, g, n) ==
    IF n = 1 THEN Q(mqm, g, 1) ELSE FMax(RowMaxUpTo(mqm, g, n - 1), Q(mqm, g, n))

RowMax(mqm, g) == RowMaxUpTo(mqm, g, mqm.cols)

\* The indices max(dim=0) may return: an index of a maximal element.  Which
\* of several maximal elements is returned is not fixed by the library.
ArgMaxChoices(mqm) ==
    { m \in [1..mqm.cols -> 0..(mqm.rows - 1)] :
        \A n \in 1..mqm.cols : Q(mqm, m[n] + 1, n) = ColMax(mqm, n) }

\* low_high = (matched_vals >= low) & (matched_vals < high)
InBandStrictLow(v, low, high) == FGreater(v, low) /\ FLess(v, high)

InBand(v, low, high) == FGeq(v, low) /\ FLess(v, high)

\* the loop over zip(labels, thresholds[:-1], thresholds[1:]) for one
\* prediction: cur is its label before band k is looked at
RECURSIVE BandLoop(_, _, _, _)
BandLoop(m, v, k, cur) ==
    IF k > Len(m.labels) \/ k > Len(m.thresholds) - 1 THEN cur
    ELSE BandLoop(m, v, k + 1,
                  IF InBand(v, m.thresholds[k], m.thresholds[k + 1])
                  THEN m.labels[k] ELSE cur)

\* predictions set_low_quality_matches_ relabels: those whose quality
\* equals the maximum of some ground-truth row
LowQualityIndsBest(mqm) ==
    { n \in 1..mqm.cols :
        \E g \in 1..mqm.rows :
            /\ Q(mqm, g, n) = RowMax(mqm, g)
            /\ \A n2 \in 1..(n - 1) : Q(mqm, g, n2) # RowMax(mqm, g) }

LowQualityInds(mqm) ==
    { n \in 1..mqm.cols : \E g \in 1..mqm.rows : Q(mqm, g, n) = RowMax(mqm, g) }

set_low_quality_matches_(labs, mqm) ==
    [n \in 1..mqm.cols |-> IF n \in LowQualityInds(mqm) THEN 1 ELSE labs[n]]

\* the label given to every prediction when the matrix has no element
DefaultLabelZero(m) == 0

DefaultLabel(m) == m.labels[1]

\* match_labels of Matcher.__call__ on a matrix with at least one element
MatchLabels(m, mqm) ==
    LET banded == [n \in 1..mqm.cols |-> BandLoop(m, ColMax(mqm, n), 1, 1)]
    IN  IF m.allow_low_quality_matches
        THEN set_low_quality_matches_(banded, mqm)
        ELSE banded

(***************************************************************************)
(* AnchorGenerator                                                         *)
(***************************************************************************)
Min(a, b) == IF a < b THEN a ELSE b

\* integer square root by bisection: the r in lo..hi with r*r <= n < (r+1)^2
RECURSIVE SqrtIn(_, _, _)
SqrtIn(n, lo, hi) ==
    IF lo >= hi THEN lo
    ELSE LET mid == (lo + hi + 1) \div 2
         IN  IF mid * mid <= n THEN SqrtIn(n, mid, hi) ELSE SqrtIn(n, lo, mid - 1)

\* math.sqrt, exact on the squares of rationals (the model's sizes and
\* aspect ratios are chosen so that area / aspect_ratio is one)
FSqrt(a) == <<SqrtIn(a[1], 0, a[1]), SqrtIn(a[2], 0, a[2])>>

\* smallest integer >= a, for finite a
Ceil(a) == -((-a[1]) \div a[2])

Floor(a) == a[1] \div a[2]

\* number of elements of torch.arange(start, end, step)
ArangeLenFloor(start, end, step) == Floor(FDiv(FSub(end, start), step))

ArangeLen(start, end, step) == Ceil(FDiv(FSub(end, start), step))

\* torch.arange(start, end, step) as a sequence
Arange(start, end, step) ==
    [i \in 1..ArangeLen(start, end, step) |-> FAdd(start, FMul(R(i - 1), step))]

\* _create_grid_offsets: shift_x, shift_y, flattened row-major over (y, x)
CreateGridOffsets(size, stride, offset) ==
    LET shifts_x == Arange(FMul(offset, R(stride)), R(size[2] * stride), R(stride))
        shifts_y == Arange(FMul(offset, R(stride)), R(size[1] * stride), R(stride))
        W == Len(shifts_x)
        H == Len(shifts_y)
    IN  [shift_x |-> [r \in 1..(H * W) |-> shifts_x[((r - 1) % W) + 1]],
         shift_y |-> [r \in 1..(H * W) |-> shifts_y[((r - 1) \div W) + 1]]]

\* generate_cell_anchors: sizes outer loop, aspect ratios inner loop
generate_cell_anchors(sizes, aspect_ratios) ==
    [k \in 1..(Len(sizes) * Len(aspect_ratios)) |->
        LET size == sizes[((k - 1) \div Len(aspect_ratios)) + 1]
            aspect_ratio == aspect_ratios[((k - 1) % Len(aspect_ratios)) + 1]
            area == FMul(R(size), R(size))
            w == FSqrt(FDiv(area, aspect_ratio))
            h == FMul(aspect_ratio, w)
        IN  <<FNeg(FDiv(w, R(2))), FNeg(FDiv(h, R(2))), FDiv(w, R(2)), FDiv(h, R(2))>>]

\* the list after "sizes *= self.num_features" when it has one element
Broadcast(list, num_features) ==
    IF Len(list) = 1 THEN [k \in 1..num_features |-> list[1]] ELSE list

\* grid_anchors for one level
LevelAnchors(size, stride, offset, base_anchors) ==
    LET g == CreateGridOffsets(size, stride, offset)
        A == Len(base_anchors)
    IN  [k \in 1..(Len(g.shift_x) * A) |->
            LET r == ((k - 1) \div A) + 1
                a == ((k - 1) % A) + 1
            IN  <<FAdd(g.shift_x[r], base_anchors[a][1]),
                  FAdd(g.shift_y[r], base_anchors[a][2]),
                  FAdd(g.shift_x[r], base_anchors[a][3]),
                  FAdd(g.shift_y[r], base_anchors[a][4])>>]

\* grid_anchors: zip stops at the shortest of its three lists
grid_anchors(gen, sizes) ==
    [l \in 1..Min(Len(sizes), Min(Len(gen.strides), Len(gen.cell_anchors))) |->
        LevelAnchors(sizes[l], gen.strides[l], gen.offset, gen.cell_anchors[l])]

(***************************************************************************)
(* Box utilities: _clip_box, pairwise_intersection, pairwise_iou,          *)
(* pairwise_ioa                                                            *)
(***************************************************************************)
\* x.clamp_(min=lo, max=hi)
Clamp(x, lo, hi) == FMin(FMax(x, lo), hi)

\* torch.isfinite(tensor).all()
AllFinite(t) == \A i \in 1..Len(t) : \A c \in 1..4 : IsFinite(t[i][c])

\* the four clamps of _clip_box on one row; box_size is (height, width)
ClipRowSwapped(b, size) ==
    <<Clamp(b[1], R(0), R(size[1])), Clamp(b[2], R(0), R(size[2])),
      Clamp(b[3], R(0), R(size[1])), Clamp(b[4], R(0), R(size[2]))>>

ClipRow(b, size) ==
    <<Clamp(b[1], R(0), R(size[2])), Clamp(b[2], R(0), R(size[1])),
      Clamp(b[3], R(0), R(size[2])), Clamp(b[4], R(0), R(size[1]))>>

\* Boxes.area(): width times height
Area(b) == FMul(FSub(b[3], b[1]), FSub(b[4], b[2]))

\* pairwise_intersection for one pair
Intersection(b1, b2) ==
    LET w == FSub(FMin(b1[3], b2[3]), FMax(b1[1], b2[1]))
        h == FSub(FMin(b1[4], b2[4]), FMax(b1[2], b2[2]))
    IN  FMul(FMax(w, R(0)), FMax(h, R(0)))

\* torch.where(inter > 0, inter / denominator, 0)
RatioOrZeroUnguarded(inter, den) == FDiv(inter, den)

RatioOrZero(inter, den) == IF FGreater(inter, R(0)) THEN FDiv(inter, den) ELSE R(0)

\* the union taken as area1 + area2, the overlap counted twice
pairwise_iou_double_counted(bs1, bs2) ==
    [i \in 1..Len(bs1) |-> [j \in 1..Len(bs2) |->
        RatioOrZero(Intersection(bs1[i], bs2[j]), FAdd(Area(bs1[i]), Area(bs2[j])))]]

pairwise_iou(bs1, bs2) ==
    [i \in 1..Len(bs1) |-> [j \in 1..Len(bs2) |->
        LET inter == Intersection(bs1[i], bs2[j])
        IN  RatioOrZero(inter, FSub(FAdd(Area(bs1[i]), Area(bs2[j])), inter))]]

pairwise_ioa(bs1, bs2) ==
    [i \in 1..Len(bs1) |-> [j \in 1..Len(bs2) |->
        RatioOrZero(Intersection(bs1[i], bs2[j]), Area(bs2[j]))]]

(***************************************************************************)
(* Box2BoxTransform: get_deltas followed by apply_deltas on the same boxes *)
(***************************************************************************)
(* Non-maximum suppression: torchvision.ops.nms, torchvision's batched_nms *)
(* and batched_nms of modeling_frcnn.py.  torch's sort is not stable, so   *)
(* an operator gives the SET of results the library may return: one per    *)
(* order of the boxes in which the scores do not increase.                 *)
(***************************************************************************)
Select(seq, inds) == [k \in 1..Len(inds) |-> seq[inds[k]]]

ToZeroBased(inds) == [k \in 1..Len(inds) |-> inds[k] - 1]

ToOneBased(inds) == [k \in 1..Len(inds) |-> inds[k] + 1]

RECURSIVE Ascending(_)
Ascending(S) ==
    IF S = {} THEN <<>>
    ELSE LET m == CHOOSE x \in S : \A y \in S : x <= y
         IN  <<m>> \o Ascending(S \ {m})

Perms(S) ==
    { p \in [1..Cardinality(S) -> S] : \A a, b \in 1..Cardinality(S) : a # b => p[a] # p[b] }

\* the results of sort / argsort (descending=True) restricted to the rows S
DescOrders(S, scores) ==
    { p \in Perms(S) : \A a \in 1..(Cardinality(S) - 1) : FGeq(scores[p[a]], scores[p[a + 1]]) }

\* the IoU computed inside nms: no guard, 0/0 is NaN
NmsIou(b1, b2) ==
    LET area1 == FMul(FSub(b1[3], b1[1]), FSub(b1[4], b1[2]))
        area2 == FMul(FSub(b2[3], b2[1]), FSub(b2[4], b2[2]))
        inter == Intersection(b1, b2)
    IN  FDiv(inter, FSub(FAdd(area1, area2), inter))

Overlaps(b1, b2, thr) == FGreater(NmsIou(b1, b2), thr)

\* the row visited last decides alone
SuppressedByLastVisited(boxes, groups, order, thr, k, kept) ==
    /\ k > 1
    /\ groups[order[k - 1]] = groups[order[k]]
    /\ Overlaps(boxes[order[k - 1]], boxes[order[k]], thr)

\* the k-th visited row is suppressed iff it overlaps a kept row of its group
Suppressed(boxes, groups, order, thr, k, kept) ==
    \E m \in 1..Len(kept) :
        /\ groups[kept[m]] = groups[order[k]]
        /\ Overlaps(boxes[kept[m]], boxes[order[k]], thr)

\* greedy suppression over the rows in the given order
RECURSIVE NmsVisit(_, _, _, _, _, _)
NmsVisit(boxes, groups, order, thr, k, kept) ==
    IF k > Len(order) THEN kept
    ELSE NmsVisit(boxes, groups, order, thr, k + 1,
                  IF Suppressed(boxes, groups, order, thr, k, kept)
                  THEN kept ELSE Append(kept, order[k]))

\* torchvision.ops.nms: kept rows in decreasing order of score
nms(boxes, scores, thr) ==
    { NmsVisit(boxes, [i \in 1..Len(boxes) |-> 0], o, thr, 1, <<>>) :
        o \in DescOrders(1..Len(boxes), scores) }

\* torchvision.ops.boxes.batched_nms: nms is not applied between rows of
\* different categories
box_ops_batched_nms(boxes, scores, idxs, thr) ==
    { NmsVisit(boxes, idxs, o, thr, 1, <<>>) : o \in DescOrders(1..Len(boxes), scores) }

\* (idxs == g).nonzero().view(-1)
Mask(idxs, g) == Ascending({ i \in 1..Len(idxs) : idxs[i] = g })

\* the values result_mask may have after the loop over the group ids gs
RECURSIVE ResultMasks(_, _, _, _, _)
ResultMasks(boxes, scores, idxs, thr, gs) ==
    IF gs = {} THEN {{}}
    ELSE LET g == CHOOSE x \in gs : TRUE
             mask == Mask(idxs, g)
             keeps == nms(Select(boxes, mask), Select(scores, mask), thr)
         IN  { rest \cup { mask[k[m]] : m \in 1..Len(k) } :
                 rest \in ResultMasks(boxes, scores, idxs, thr, gs \ {g}), k \in keeps }

\* one nms over all the rows, whatever their group
batched_nms_loop_ungrouped(boxes, scores, idxs, thr) ==
    UNION { DescOrders({ k[m] : m \in 1..Len(k) }, scores) : k \in nms(boxes, scores, thr) }

\* the fallback branch of batched_nms
batched_nms_loop(boxes, scores, idxs, thr) ==
    UNION { DescOrders(rm, scores) : rm \in ResultMasks(boxes, scores, idxs, thr, Range(idxs)) }

batched_nms(boxes, scores, idxs, thr) ==
    IF Len(boxes) < 40000
    THEN box_ops_batched_nms(boxes, scores, idxs, thr)
    ELSE batched_nms_loop(boxes, scores, idxs, thr)

(***************************************************************************)
(* find_top_rpn_proposals.  proposals[l][n][a] is the box and              *)
(* pred_objectness_logits[l][n][a] the logit of anchor a of image n on     *)
(* level l.  The sort of the logits is not stable, so the selection is a   *)
(* set of outcomes.                                                        *)
(***************************************************************************)
\* one element of every set of a sequence of sets, in all ways
RECURSIVE SeqProduct(_)
SeqProduct(sets) ==
    IF sets = <<>> THEN {<<>>}
    ELSE { <<h>> \o t : h \in Head(sets), t \in SeqProduct(Tail(sets)) }

RECURSIVE Concat(_)
Concat(seqs) == IF seqs = <<>> THEN <<>> ELSE Head(seqs) \o Concat(Tail(seqs))

\* seq[:k], k >= 0
Prefix(seq, k) == SubSeq(seq, 1, Min(k, Len(seq)))

\* num_proposals_i
NumProposals(pre_nms_topk, Hi_Wi_A) == Min(pre_nms_topk, Hi_Wi_A)

\* the first num_proposals_i columns as they stand, without the sort
TopkIdxOfLevelUnsorted(logits_i, pre_nms_topk) ==
    { [n \in 1..Len(logits_i) |->
        [c \in 1..NumProposals(pre_nms_topk, Len(logits_i[n])) |-> c]] }

\* the values of topk_idx for one level: per image, the first
\* num_proposals_i columns of the sort of its logits (1-based columns)
TopkIdxOfLevel(logits_i, pre_nms_topk) ==
    SeqProduct([n \in 1..Len(logits_i) |->
        { Prefix(o, NumProposals(pre_nms_topk, Len(logits_i[n]))) :
            o \in DescOrders(1..Len(logits_i[n]), logits_i[n]) }])

\* the values of topk_idx over the levels
TopkIdx(logits, pre_nms_topk) ==
    SeqProduct([l \in 1..Len(logits) |-> TopkIdxOfLevel(logits[l], pre_nms_topk)])

\* steps 1 and 2 for a choice idx of topk_idx: the concatenated scores and
\* proposals of every image and the level id of every column
TopkScores(logits, idx, N) ==
    [n \in 1..N |-> Concat([l \in 1..Len(logits) |-> Select(logits[l][n], idx[l][n])])]

TopkProposals(props, idx, N) ==
    [n \in 1..N |-> Concat([l \in 1..Len(props) |-> Select(props[l][n], idx[l][n])])]

LevelIds(logits, pre_nms_topk) ==
    Concat([l \in 1..Len(logits) |->
        [c \in 1..NumProposals(pre_nms_topk, Len(logits[l][1])) |-> l - 1]])

\* a side equal to the threshold counts as non-empty
NonemptyOrEqual(b, threshold) ==
    FGeq(FSub(b[3], b[1]), threshold) /\ FGeq(FSub(b[4], b[2]), threshold)

\* _nonempty_boxes on one row
Nonempty(b, threshold) ==
    FGreater(FSub(b[3], b[1]), threshold) /\ FGreater(FSub(b[4], b[2]), threshold)

\* Boxes.tensor: the rows of the box list
TensorOf(boxes) == boxes

\* step 3 for one image, after the clip: the possible (res, levels, survivors),
\* res being the returned dict, levels the level id of every returned row and
\* survivors the rows batched_nms kept, before keep[:post_nms_topk]
ImageOutcomes(clipped, scores, lvl_ids, image_size, args) ==
    LET fl == Ascending({ i \in 1..Len(clipped) : Nonempty(clipped[i], args.min_box_side_len) })
        boxes == Select(clipped, fl)
        scores_per_img == Select(scores, fl)
        lvl == Select(lvl_ids, fl)
    IN  { [res |-> [size |-> image_size,
                    proposal_boxes |-> Select(boxes, Prefix(k, args.post_nms_topk)),
                    objectness_logits |-> Select(scores_per_img, Prefix(k, args.post_nms_topk))],
           levels |-> Select(lvl, Prefix(k, args.post_nms_topk)),
           survivors |-> [m \in 1..Len(k) |-> <<boxes[k[m]], scores_per_img[k[m]], lvl[k[m]]>>]] :
            k \in batched_nms(TensorOf(boxes), scores_per_img, lvl, args.nms_thresh) }

(***************************************************************************)
(* RPN.  The values of the loss path are tagged with their Python type: a  *)
(* loss is a tensor, the normalizer and the loss weight are floats, and    *)
(* torch.nn.SmoothL1Loss(...) is a module object.                          *)
(***************************************************************************)
\* RPN.__init__: the fields forward reads; the top-k counts are keyed by
\* self.training
RPNObject(cfg, training) ==
    [training |-> training,
     min_box_side_len |-> cfg.MIN_SIZE,
     nms_thresh |-> cfg.NMS_THRESH,
     batch_size_per_image |-> cfg.BATCH_SIZE_PER_IMAGE,
     loss_weight |-> cfg.LOSS_WEIGHT,
     pre_nms_topk |-> [t \in BOOLEAN |->
                          IF t THEN cfg.PRE_NMS_TOPK_TRAIN ELSE cfg.PRE_NMS_TOPK_TEST],
     post_nms_topk |-> [t \in BOOLEAN |->
                          IF t THEN cfg.POST_NMS_TOPK_TRAIN ELSE cfg.POST_NMS_TOPK_TEST]]

PyFloat(v) == [type |-> "float", value |-> v]

\* the sum of the binary cross entropies over the valid anchors, not evaluated
ObjectnessLoss == [type |-> "Tensor", value |-> "binary_cross_entropy_with_logits"]

\* torch.nn.SmoothL1Loss(reduction="sum"): the module, applied to nothing
SmoothL1Loss == [type |-> "Module", value |-> "SmoothL1Loss"]

\* a * b: a module has no __mul__, a tensor or float times a float is a product
PyMul(a, b) ==
    IF a.type = "Module" \/ b.type = "Module"
    THEN [type |-> "TypeError", value |-> <<>>]
    ELSE [type |-> a.type, value |-> <<"mul", a.value, b.value>>]

\* rpn_losses: (objectness_loss, localization_loss)
rpn_losses == <<ObjectnessLoss, SmoothL1Loss>>

\* the tail of RPNOutputs.losses: the two losses times the normalizer
RPNOutputsLosses(batch_size_per_image, num_images) ==
    LET normalizer == PyFloat(FDiv(R(1), R(batch_size_per_image * num_images)))
        loss_cls == PyMul(rpn_losses[1], normalizer)
        loss_loc == PyMul(rpn_losses[2], normalizer)
    IN  IF loss_cls.type = "TypeError" \/ loss_loc.type = "TypeError"
        THEN [raised |-> "TypeError", losses |-> <<>>]
        ELSE [raised |-> "none", losses |-> [loss_rpn_cls |-> loss_cls, loss_rpn_loc |-> loss_loc]]

\* the arguments forward passes to find_top_rpn_proposals
FindTopArgs(r) ==
    [nms_thresh |-> r.nms_thresh,
     pre_nms_topk |-> r.pre_nms_topk[r.training],
     post_nms_topk |-> r.post_nms_topk[r.training],
     min_box_side_len |-> r.min_box_side_len,
     training |-> r.training]

\* sort in increasing order
SortAscending(scores) ==
    { p \in Perms(1..Len(scores)) :
        \A a \in 1..(Len(scores) - 1) : FLeq(scores[p[a]], scores[p[a + 1]]) }

\* objectness_logits.sort(descending=True)[1]
SortDescending(scores) == DescOrders(1..Len(scores), scores)

\* Instances.__getitem__: the rows ind of every field
InstancesGetItem(p, ind) ==
    [size |-> p.size,
     proposal_boxes |-> Select(p.proposal_boxes, ind),
     objectness_logits |-> Select(p.objectness_logits, ind)]

(***************************************************************************)
(* assign_boxes_to_levels.  floor(canonical_level + log2(x)) is computed   *)
(* as canonical_level + floor(log2(x)), canonical_level being an integer;  *)
(* the floor of the logarithm of a positive rational is exact.             *)
(***************************************************************************)
\* the 1e-8 added before the logarithm
EPS == <<1, 100000000>>

\* smallest j with 2^j >= m, for an integer m >= 1
RECURSIVE CeilLog2(_)
CeilLog2(m) == IF m <= 1 THEN 0 ELSE 1 + CeilLog2((m + 1) \div 2)

\* floor(log2(x)) for a finite x > 0
FloorLog2(x) ==
    IF x[1] >= x[2] THEN Log2(x[1] \div x[2])
    ELSE -CeilLog2(-((-x[2]) \div x[1]))

Max(a, b) == IF a > b THEN a ELSE b

\* the area itself taken as the size
BoxSizeNoSqrt(b) == Area(b)

\* torch.sqrt(boxes.area()) of one box
BoxSize(b) == FSqrt(Area(b))

\* the level index of one box of non-negative area
LevelAssignment(b, a) ==
    LET x == FAdd(FDiv(BoxSize(b), R(a.canonical_box_size)), EPS)
        level == a.canonical_level + FloorLog2(x)
    IN  Min(Max(level, a.min_level), a.max_level) - a.min_level

assign_boxes_to_levels(lists, a) ==
    LET boxes == Concat(lists)
    IN  [i \in 1..Len(boxes) |-> LevelAssignment(boxes[i], a)]

(***************************************************************************)
MaxB2BBoxes == 2

MaxLog == 6

BoxOf(t) == <<R(t[1]), R(t[2]), R(t[3]), R(t[4])>>

\* valid boxes, and boxes with a zero or negative width or height
B2BSrcBoxes ==
    { BoxOf(t) : t \in { <<0, 0, 1, 1>>, <<1, 0, 3, 4>>, <<0, 1, 0, 2>>,
                         <<2, 0, 1, 1>>, <<0, 1, 2, 1>>, <<0, 2, 4, 1>> } }

\* sides are powers of two, up to 2^MaxLog times a source side
B2BTargetBoxes ==
    { BoxOf(t) : t \in { <<0, 0, 2, 2>>, <<1, 2, 5, 3>>,
                         <<0, 0, Pow2(MaxLog), 1>>,
                         <<3, 1, 4, 1 + Pow2(MaxLog)>> } }

B2BWeights ==
    { <<R(1), R(1), R(1), R(1)>>, <<R(10), R(10), R(5), R(5)>>,
      <<R(-1), R(2), R(1), R(-2)>>, <<R(0), R(1), R(1), R(0)>> }

InitB2B ==
    /\ pc = "start"
    /\ error = "none"
    /\ weights \in B2BWeights
    /\ \E n \in 1..MaxB2BBoxes :
          /\ src_boxes \in [1..n -> B2BSrcBoxes]
          /\ target_boxes \in [1..n -> B2BTargetBoxes]
    /\ deltas = <<>>
    /\ pred_boxes = <<>>
    /\ ExtIdle
    /\ MatcherIdle
    /\ AnchorIdle
    /\ ClipIdle
    /\ IouIdle

GetDeltasCall ==
    /\ pc = "start"
    /\ IF GetDeltasAssert(src_boxes)
       THEN /\ deltas' = get_deltas(weights, src_boxes, target_boxes)
            /\ pc' = "deltas"
            /\ error' = error
       ELSE /\ pc' = "error"
            /\ error' = "AssertionError"
            /\ deltas' = deltas
    /\ UNCHANGED <<ext_vars, weights, src_boxes, target_boxes, pred_boxes, matcher_vars, anchor_vars, clip_vars, iou_vars>>

ApplyDeltasCall ==
    /\ pc = "deltas"
    /\ pred_boxes' = apply_deltas(weights, deltas, src_boxes)
    /\ pc' = "done"
    /\ UNCHANGED <<ext_vars, error, weights, src_boxes, target_boxes, deltas, matcher_vars, anchor_vars, clip_vars, iou_vars>>

NextB2B == GetDeltasCall \/ ApplyDeltasCall

SpecB2B == InitB2B /\ [][NextB2B]_vars

PositiveDims(b) == FGreater(FSub(b[3], b[1]), R(0)) /\ FGreater(FSub(b[4], b[2]), R(0))

NonZeroWeights == \A c \in 1..4 : weights[c] # R(0)

\* neither scale delta of row i is cut by the clamp
NoSaturation(i) ==
    /\ FLeq(FDiv(deltas[i][3], weights[3]), SCALE_CLAMP)
    /\ FLeq(FDiv(deltas[i][4], weights[4]), SCALE_CLAMP)

RoundTripCase(i) ==
    /\ PositiveDims(src_boxes[i])
    /\ PositiveDims(target_boxes[i])
    /\ NonZeroWeights
    /\ NoSaturation(i)

\* C1: apply_deltas(get_deltas(src, tgt), src) = tgt for every row whose
\* source and target have positive width and height, when all weights are
\* non-zero and neither dw/ww nor dh/wh exceeds scale_clamp.
C1_RoundTrip ==
    pc = "done" =>
        \A i \in 1..Len(src_boxes) : RoundTripCase(i) => pred_boxes[i] = target_boxes[i]

C1_Witness ==
    /\ pc = "done"
    /\ \E i \in 1..Len(src_boxes) :
          /\ RoundTripCase(i)
          /\ target_boxes[i] # src_boxes[i]
          /\ pred_boxes[i] = target_boxes[i]
          /\ weights[3] # R(1)

\* C2: get_deltas raises whenever some source box has a zero or negative
\* width or a zero or negative height, and returns no deltas for it.
C2_InvalidSrcRaises ==
    (pc # "start" /\ \E i \in 1..Len(src_boxes) : ~PositiveDims(src_boxes[i]))
        => (pc = "error" /\ error = "AssertionError" /\ deltas = <<>>)

(***************************************************************************)
(* Matcher: construction, then one call on a quality matrix                *)
(***************************************************************************)
MaxGT == 2

MaxPred == 2

MaxQ == 3

MaxCells == 4

\* qualities 0, 1/4, ..., MaxQ/4
Qualities == { Norm(k, 4) : k \in 0..MaxQ }

MatricesOfShape(M, N) ==
    { [rows |-> M, cols |-> N, val |-> v] : v \in [1..M -> [1..N -> Qualities]] }

Matrices ==
    UNION { MatricesOfShape(sh[1], sh[2]) :
            sh \in { p \in (0..MaxGT) \X (0..MaxPred) : p[1] * p[2] <= MaxCells } }

MatcherThresholds ==
    { <<Half>>, <<Norm(1, 4), Norm(3, 4)>>, <<Half, Half>>,
      <<R(0), Half>>, <<Norm(3, 4), Norm(1, 4)>>, <<>> }

MatcherLabels ==
    { <<0, 1>>, <<0, -1, 1>>, <<-1, 0>>, <<1, 0, -1>>, <<0, 2, 1>> }

InitMatcher ==
    /\ pc = "start"
    /\ error = "none"
    /\ ExtIdle
    /\ B2BIdle
    /\ AnchorIdle
    /\ ClipIdle
    /\ IouIdle
    /\ matcher_args \in [thresholds : MatcherThresholds,
                         labels : MatcherLabels,
                         allow_low_quality_matches : BOOLEAN]
    /\ matcher = <<>>
    /\ match_quality_matrix = <<>>
    /\ matches = <<>>
    /\ match_labels = <<>>

MatcherInit ==
    /\ pc = "start"
    /\ LET e == MatcherInitError(matcher_args.thresholds, matcher_args.labels)
       IN  IF e = "none"
           THEN /\ matcher' = MatcherObject(matcher_args.thresholds, matcher_args.labels,
                                            matcher_args.allow_low_quality_matches)
                /\ pc' = "constructed"
                /\ error' = error
           ELSE /\ matcher' = matcher
                /\ pc' = "error"
                /\ error' = e
    /\ UNCHANGED <<ext_vars, b2b_vars, anchor_vars, clip_vars, iou_vars, matcher_args, match_quality_matrix, matches, match_labels>>

MatcherCall ==
    /\ pc = "constructed"
    /\ \E mqm \in Matrices :
         /\ match_quality_matrix' = mqm
         /\ IF mqm.rows * mqm.cols = 0
            THEN /\ matches' = [n \in 1..mqm.cols |-> 0]
                 /\ match_labels' = [n \in 1..mqm.cols |-> DefaultLabel(matcher)]
                 /\ pc' = "matched"
                 /\ error' = error
            ELSE IF \E g \in 1..mqm.rows, n \in 1..mqm.cols : ~FGeq(Q(mqm, g, n), R(0))
            THEN /\ pc' = "error"
                 /\ error' = "AssertionError"
                 /\ UNCHANGED <<matches, match_labels>>
            ELSE /\ matches' \in ArgMaxChoices(mqm)
                 /\ match_labels' = MatchLabels(matcher, mqm)
                 /\ pc' = "matched"
                 /\ error' = error
    /\ UNCHANGED <<ext_vars, b2b_vars, anchor_vars, clip_vars, iou_vars, matcher_args, matcher>>

NextMatcher == MatcherInit \/ MatcherCall

SpecMatcher == InitMatcher /\ [][NextMatcher]_vars

M_ == match_quality_matrix.rows

N_ == match_quality_matrix.cols

Called == pc = "matched" \/ (pc = "error" /\ matcher # <<>>)

\* C3: without low-quality matches, on an M x N matrix with M, N >= 1 every
\* prediction gets a ground-truth index in [0, M) of maximal quality in its
\* column, and the label of the one band [thresholds[k], thresholds[k+1])
\* that contains that maximal quality.
C3_ArgMaxAndBand ==
    (pc = "matched" /\ ~matcher.allow_low_quality_matches /\ M_ >= 1 /\ N_ >= 1) =>
        /\ Len(matches) = N_
        /\ Len(match_labels) = N_
        /\ \A n \in 1..N_ :
             /\ matches[n] \in 0..(M_ - 1)
             /\ \A g \in 1..M_ :
                  FGeq(Q(match_quality_matrix, matches[n] + 1, n), Q(match_quality_matrix, g, n))
             /\ \E k \in 1..Len(matcher.labels) :
                  /\ FLeq(matcher.thresholds[k], Q(match_quality_matrix, matches[n] + 1, n))
                  /\ FLess(Q(match_quality_matrix, matches[n] + 1, n), matcher.thresholds[k + 1])
                  /\ match_labels[n] = matcher.labels[k]
                  /\ \A k2 \in 1..Len(matcher.labels) :
                       (/\ FLeq(matcher.thresholds[k2], Q(match_quality_matrix, matches[n] + 1, n))
                        /\ FLess(Q(match_quality_matrix, matches[n] + 1, n), matcher.thresholds[k2 + 1]))
                       => k2 = k

\* a prediction whose maximal quality sits exactly on a threshold, in a
\* three-band configuration, next to a prediction in the lowest band
C3_Witness ==
    /\ pc = "matched"
    /\ ~matcher.allow_low_quality_matches
    /\ M_ = 2
    /\ N_ = 2
    /\ Len(matcher.labels) = 3
    /\ \E n \in 1..N_ :
         /\ Q(match_quality_matrix, matches[n] + 1, n) = matcher.thresholds[2]
         /\ match_labels[n] = matcher.labels[2]
         /\ matches[n] = 1
    /\ \E n \in 1..N_ : match_labels[n] = matcher.labels[1]

\* C4 as stated: every label is an element of the configured labels list,
\* for every accepted configuration and every non-negative matrix.
C4_LabelInConfigured ==
    pc = "matched" =>
        /\ Len(match_labels) = N_
        /\ \A n \in 1..N_ : match_labels[n] \in Range(matcher.labels)

\* C4 amended: every prediction gets exactly one label, which is an element
\* of the configured labels list or, when allow_low_quality_matches is set
\* and the prediction is tied for the maximum of some ground-truth row, 1;
\* the label is always one of -1, 0, 1.
C4_LabelInConfiguredOrRescued ==
    pc = "matched" =>
        /\ Len(match_labels) = N_
        /\ \A n \in 1..N_ :
             /\ match_labels[n] \in {-1, 0, 1}
             /\ \/ match_labels[n] \in Range(matcher.labels)
                \/ /\ matcher.allow_low_quality_matches
                   /\ match_labels[n] = 1
                   /\ \E g \in 1..M_ :
                        \A n2 \in 1..N_ :
                            FGeq(Q(match_quality_matrix, g, n), Q(match_quality_matrix, g, n2))

\* a rescued prediction labelled 1 under a labels list without 1, next to a
\* prediction that keeps its band label
C4_Witness ==
    /\ pc = "matched"
    /\ matcher.allow_low_quality_matches
    /\ 1 \notin Range(matcher.labels)
    /\ M_ >= 1
    /\ N_ = 2
    /\ \E n \in 1..N_ : match_labels[n] = 1
    /\ \E n \in 1..N_ : match_labels[n] \in Range(matcher.labels)

\* C5: with no ground-truth row the call raises nothing and gives every
\* prediction index 0 and label labels[0], whatever the low-quality flag.
C5_NoGroundTruth ==
    (Called /\ M_ = 0) =>
        /\ pc = "matched"
        /\ error = "none"
        /\ Len(matches) = N_
        /\ Len(match_labels) = N_
        /\ \A n \in 1..N_ : matches[n] = 0 /\ match_labels[n] = matcher.labels[1]

C5_Witness ==
    /\ pc = "matched"
    /\ M_ = 0
    /\ N_ = 2
    /\ matcher.allow_low_quality_matches
    /\ matcher.labels[1] # 0
    /\ match_labels = <<matcher.labels[1], matcher.labels[1]>>
    /\ matches = <<0, 0>>

\* C6: with low-quality matches allowed and M, N >= 1, every prediction
\* tied for the maximum of a ground-truth row is labelled 1, so every row
\* has such a prediction, also when the maximum is below every threshold.
C6_RowMaxLabelledPositive ==
    (pc = "matched" /\ matcher.allow_low_quality_matches /\ M_ >= 1 /\ N_ >= 1) =>
        \A g \in 1..M_ :
            /\ \E n \in 1..N_ :
                 /\ \A n2 \in 1..N_ :
                      FGeq(Q(match_quality_matrix, g, n), Q(match_quality_matrix, g, n2))
                 /\ match_labels[n] = 1
            /\ \A n \in 1..N_ :
                 (\A n2 \in 1..N_ :
                      FGeq(Q(match_quality_matrix, g, n), Q(match_quality_matrix, g, n2)))
                 => match_labels[n] = 1

\* a row whose maximum is below every threshold, attained by two predictions
C6_Witness ==
    /\ pc = "matched"
    /\ matcher.allow_low_quality_matches
    /\ M_ = 2
    /\ N_ = 2
    /\ \E g \in 1..M_ :
         /\ Q(match_quality_matrix, g, 1) = Q(match_quality_matrix, g, 2)
         /\ FLess(Q(match_quality_matrix, g, 1), matcher.thresholds[2])
         /\ match_labels = <<1, 1>>
         /\ \E n \in 1..N_ :
              FGeq(Q(match_quality_matrix, 3 - g, n), matcher.thresholds[2])

\* prediction n is tied for the maximum of ground-truth row g
BestOfRow(g, n) ==
    \A n2 \in 1..N_ : FGeq(Q(match_quality_matrix, g, n), Q(match_quality_matrix, g, n2))

\* no prediction is the best of two ground truths, so that matching every
\* rescued prediction to its ground truth is possible
RescueFeasible ==
    \A g1 \in 1..M_, g2 \in 1..M_ :
        g1 # g2 => ~\E n \in 1..N_ : BestOfRow(g1, n) /\ BestOfRow(g2, n)

\* every column has a single maximal element: the returned indices do not
\* depend on how max(dim=0) breaks ties
NoColumnTies ==
    \A n \in 1..N_ : \A g1 \in 1..M_, g2 \in 1..M_ :
        (/\ Q(match_quality_matrix, g1, n) = ColMax(match_quality_matrix, n)
         /\ Q(match_quality_matrix, g2, n) = ColMax(match_quality_matrix, n)) => g1 = g2

\* C7: with low-quality matches allowed and M, N >= 1, every ground-truth
\* index g has a prediction labelled 1 whose matched index is g (stated for
\* the matrices on which this can be achieved at all, and on which the
\* matched indices are fixed by the qualities).
C7_EveryGroundTruthMatched ==
    (/\ pc = "matched"
     /\ matcher.allow_low_quality_matches
     /\ M_ >= 1
     /\ N_ >= 1
     /\ RescueFeasible
     /\ NoColumnTies) =>
        \A g \in 1..M_ :
            \E n \in 1..N_ : match_labels[n] = 1 /\ matches[n] = g - 1

(***************************************************************************)
(* AnchorGenerator: construction from a config, then grid_anchors          *)
(***************************************************************************)
MaxGrid == 2

MaxLevels == 2

\* aspect ratios are squares of rationals so that the square root is exact
AnchorSizes == { <<<<32, 64, 128>>>>, <<<<32>>, <<64, 128>>>>, <<<<16>>>> }

AnchorAspectRatios ==
    { <<<<Norm(1, 4), R(1), R(4)>>>>, <<<<R(1)>>, <<Norm(1, 4), R(4)>>>> }

AnchorOffsets == { R(0), Half, Norm(1, 4), R(1) }

AnchorStrides == { <<16>>, <<16, 32>>, <<4, 8>>, <<8, 16, 32>> }

GridSizes ==
    UNION { [1..L -> (1..MaxGrid) \X (1..MaxGrid)] : L \in 1..MaxLevels }

InitAnchor ==
    /\ pc = "start"
    /\ error = "none"
    /\ ExtIdle
    /\ B2BIdle
    /\ MatcherIdle
    /\ ClipIdle
    /\ IouIdle
    /\ anchor_cfg \in [SIZES : AnchorSizes,
                       ASPECT_RATIOS : AnchorAspectRatios,
                       OFFSET : AnchorOffsets]
    /\ input_shape \in { st \in AnchorStrides : Len(st) <= MaxLevels }
    /\ generator = <<>>
    /\ grid_sizes = <<>>
    /\ anchors = <<>>

\* AnchorGenerator.__init__ with _calculate_anchors; the broadcast extends
\* the config's own lists in place
AnchorGeneratorInit ==
    /\ pc = "start"
    /\ IF ~(FLeq(R(0), anchor_cfg.OFFSET) /\ FLess(anchor_cfg.OFFSET, R(1)))
       THEN /\ pc' = "error"
            /\ error' = "AssertionError"
            /\ UNCHANGED <<anchor_cfg, generator>>
       ELSE LET num_features == Len(input_shape)
                sizes == Broadcast(anchor_cfg.SIZES, num_features)
                aspect_ratios == Broadcast(anchor_cfg.ASPECT_RATIOS, num_features)
            IN  /\ anchor_cfg' = [anchor_cfg EXCEPT !.SIZES = sizes,
                                                    !.ASPECT_RATIOS = aspect_ratios]
                /\ IF num_features = Len(sizes) /\ num_features = Len(aspect_ratios)
                   THEN /\ generator' =
                              [strides |-> input_shape,
                               offset |-> anchor_cfg.OFFSET,
                               num_features |-> num_features,
                               cell_anchors |->
                                   [l \in 1..num_features |->
                                       generate_cell_anchors(sizes[l], aspect_ratios[l])]]
                        /\ pc' = "constructed"
                        /\ error' = error
                   ELSE /\ generator' = generator
                        /\ pc' = "error"
                        /\ error' = "AssertionError"
    /\ UNCHANGED <<ext_vars, b2b_vars, matcher_vars, clip_vars, iou_vars, input_shape, grid_sizes, anchors>>

GridAnchorsCall ==
    /\ pc = "constructed"
    /\ \E gs \in GridSizes :
         /\ grid_sizes' = gs
         /\ anchors' = grid_anchors(generator, gs)
    /\ pc' = "done"
    /\ UNCHANGED <<ext_vars, error, b2b_vars, matcher_vars, clip_vars, iou_vars, anchor_cfg, input_shape, generator>>

NextAnchor == AnchorGeneratorInit \/ GridAnchorsCall

SpecAnchor == InitAnchor /\ [][NextAnchor]_vars

\* box b translated by (dx, dy)
Translated(b, dx, dy) == <<FAdd(b[1], dx), FAdd(b[2], dy), FAdd(b[3], dx), FAdd(b[4], dy)>>

\* C8: a level with grid (H, W), stride s, offset o and A cell anchors gets
\* exactly H*W*A boxes, and the box at 0-based index (y*W + x)*A + a is cell
\* anchor a translated by (o*s + x*s, o*s + y*s).
C8_AnchorGrid ==
    pc = "done" =>
        \A l \in 1..Len(anchors) :
            LET H == grid_sizes[l][1]
                W == grid_sizes[l][2]
                st == R(generator.strides[l])
                o == generator.offset
                A == Len(generator.cell_anchors[l])
            IN  /\ Len(anchors[l]) = H * W * A
                /\ \A x \in 0..(W - 1), y \in 0..(H - 1), a \in 0..(A - 1) :
                     anchors[l][(y * W + x) * A + a + 1] =
                         Translated(generator.cell_anchors[l][a + 1],
                                    FAdd(FMul(o, st), FMul(R(x), st)),
                                    FAdd(FMul(o, st), FMul(R(y), st)))

\* stride 16, offset 0.5, 3 sizes x 3 ratios, grid 2 x 2: 36 anchors
C8_Witness ==
    /\ pc = "done"
    /\ Len(anchors) >= 1
    /\ generator.strides[1] = 16
    /\ generator.offset = Half
    /\ Len(generator.cell_anchors[1]) = 9
    /\ grid_sizes[1] = <<2, 2>>
    /\ Len(anchors[1]) = 36
    /\ anchors[1][1] = <<R(-24), R(0), R(40), R(16)>>
    /\ anchors[1][36] = <<R(-8), R(-104), R(56), R(152)>>

\* C30: the construction of an AnchorGenerator leaves the SIZES and
\* ASPECT_RATIOS lists of the configuration as they were, for any number of
\* feature levels.
C30_ConfigUnchanged ==
    [][AnchorGeneratorInit =>
           /\ anchor_cfg'.SIZES = anchor_cfg.SIZES
           /\ anchor_cfg'.ASPECT_RATIOS = anchor_cfg.ASPECT_RATIOS]_vars

(***************************************************************************)
(* _clip_box, called twice on the same tensor                              *)
(***************************************************************************)
MaxClipBoxes == 2

MaxClipSize == 2

\* boxes inside and outside [0, w] x [0, h], fractional, and non-finite
ClipBoxes ==
    { <<R(0), R(0), R(1), R(1)>>, <<R(-1), R(-2), R(3), R(4)>>,
      <<R(1), R(2), R(2), R(1)>>, <<R(-1), R(0), R(1), R(5)>>,
      <<Half, Half, Norm(3, 2), Norm(5, 2)>>,
      <<NaN, R(0), R(1), R(1)>>, <<R(0), R(0), PosInf, R(1)>>,
      <<R(0), NegInf, R(1), R(1)>> }

InitClip ==
    /\ pc = "start"
    /\ error = "none"
    /\ ExtIdle
    /\ B2BIdle
    /\ MatcherIdle
    /\ AnchorIdle
    /\ IouIdle
    /\ \E n \in 1..MaxClipBoxes : tensor \in [1..n -> ClipBoxes]
    /\ box_size \in (1..MaxClipSize) \X (1..MaxClipSize)
    /\ clip_history = <<>>

\* the body of _clip_box
ClipBox ==
    /\ clip_history' = Append(clip_history, tensor)
    /\ IF AllFinite(tensor)
       THEN /\ tensor' = [i \in 1..Len(tensor) |-> ClipRow(tensor[i], box_size)]
            /\ pc' = IF pc = "start" THEN "clipped" ELSE "done"
            /\ error' = error
       ELSE /\ tensor' = tensor
            /\ pc' = "error"
            /\ error' = "AssertionError"
    /\ UNCHANGED <<ext_vars, b2b_vars, matcher_vars, anchor_vars, iou_vars, box_size>>

ClipBoxFirst == pc = "start" /\ ClipBox

ClipBoxAgain == pc = "clipped" /\ ClipBox

NextClip == ClipBoxFirst \/ ClipBoxAgain

SpecClip == InitClip /\ [][NextClip]_vars

InRange(x, hi) == FLeq(R(0), x) /\ FLeq(x, R(hi))

\* C9: on finite boxes clip leaves every x in [0, width] and every y in
\* [0, height] and keeps the coordinates that were already in range, so a
\* second clip changes nothing; with a NaN or infinite coordinate it fails
\* and changes no coordinate.
C9_Clip ==
    Len(clip_history) >= 1 =>
        LET before == clip_history[1]
            after == IF Len(clip_history) = 1 THEN tensor ELSE clip_history[2]
        IN  IF \A i \in 1..Len(before) : \A c \in 1..4 : before[i][c][2] # 0
            THEN /\ pc \in {"clipped", "done"}
                 /\ error = "none"
                 /\ Len(after) = Len(before)
                 /\ \A i \in 1..Len(before) :
                      /\ InRange(after[i][1], box_size[2])
                      /\ InRange(after[i][3], box_size[2])
                      /\ InRange(after[i][2], box_size[1])
                      /\ InRange(after[i][4], box_size[1])
                      /\ \A c \in 1..4 :
                           InRange(before[i][c], box_size[IF c \in {1, 3} THEN 2 ELSE 1])
                               => after[i][c] = before[i][c]
                 /\ pc = "done" => tensor = after
            ELSE /\ pc = "error"
                 /\ error = "AssertionError"
                 /\ tensor = before

\* a second clip after a first one that moved some coordinates and kept others
C9_Witness ==
    /\ pc = "done"
    /\ Len(clip_history) = 2
    /\ box_size[1] # box_size[2]
    /\ \E i \in 1..Len(tensor) :
         /\ clip_history[1][i][3] # tensor[i][3]
         /\ clip_history[1][i][2] = tensor[i][2]
    /\ clip_history[2] = tensor

\* a tensor whose second box has an infinite coordinate is rejected unchanged
C9_WitnessNonFinite ==
    /\ pc = "error"
    /\ Len(tensor) = 2
    /\ AllFinite(<<tensor[1]>>)
    /\ ~InRange(tensor[1][3], box_size[2])
    /\ IsInf(tensor[2][3])

(***************************************************************************)
(* pairwise_iou on (A, B) and on (B, A), pairwise_ioa on (A, B)            *)
(***************************************************************************)
MaxIouCoord == 2

\* valid boxes (x2 >= x1, y2 >= y1), zero-area boxes included
IouBoxes ==
    { BoxOf(t) : t \in { q \in (0..MaxIouCoord) \X (0..1) \X (0..MaxIouCoord) \X (0..1) :
                           q[1] <= q[3] /\ q[2] <= q[4] } }

IouShapes == { <<1, 1>>, <<2, 1>>, <<1, 2>> }

InitIou ==
    /\ pc = "start"
    /\ error = "none"
    /\ ExtIdle
    /\ B2BIdle
    /\ MatcherIdle
    /\ AnchorIdle
    /\ ClipIdle
    /\ \E sh \in IouShapes :
         /\ boxes1 \in [1..sh[1] -> IouBoxes]
         /\ boxes2 \in [1..sh[2] -> IouBoxes]
    /\ iou = <<>>
    /\ iou_swapped = <<>>
    /\ ioa = <<>>

PairwiseIouCall ==
    /\ pc = "start"
    /\ iou' = pairwise_iou(boxes1, boxes2)
    /\ pc' = "iou"
    /\ UNCHANGED <<ext_vars, error, b2b_vars, matcher_vars, anchor_vars, clip_vars,
                   boxes1, boxes2, iou_swapped, ioa>>

PairwiseIouSwappedCall ==
    /\ pc = "iou"
    /\ iou_swapped' = pairwise_iou(boxes2, boxes1)
    /\ pc' = "iou_swapped"
    /\ UNCHANGED <<ext_vars, error, b2b_vars, matcher_vars, anchor_vars, clip_vars,
                   boxes1, boxes2, iou, ioa>>

PairwiseIoaCall ==
    /\ pc = "iou_swapped"
    /\ ioa' = pairwise_ioa(boxes1, boxes2)
    /\ pc' = "done"
    /\ UNCHANGED <<ext_vars, error, b2b_vars, matcher_vars, anchor_vars, clip_vars,
                   boxes1, boxes2, iou, iou_swapped>>

NextIou == PairwiseIouCall \/ PairwiseIouSwappedCall \/ PairwiseIoaCall

SpecIou == InitIou /\ [][NextIou]_vars

\* the overlap of two valid boxes has zero area
NoOverlap(b1, b2) ==
    \/ FLeq(FMin(b1[3], b2[3]), FMax(b1[1], b2[1]))
    \/ FLeq(FMin(b1[4], b2[4]), FMax(b1[2], b2[2]))

\* C10: on valid boxes pairwise_iou(A,B)[i][j] = pairwise_iou(B,A)[j][i],
\* every value is in [0, 1], and the IoU and the IoA are exactly 0 (a
\* number, not the result of a division by zero) when the boxes' overlap
\* has zero area.
C10_IouSymmetricBounded ==
    pc = "done" =>
        \A i \in 1..Len(boxes1), j \in 1..Len(boxes2) :
            /\ iou[i][j] = iou_swapped[j][i]
            /\ FLeq(R(0), iou[i][j])
            /\ FLeq(iou[i][j], R(1))
            /\ NoOverlap(boxes1[i], boxes2[j]) => (iou[i][j] = R(0) /\ ioa[i][j] = R(0))

\* two different overlapping boxes next to a zero-area box
C10_Witness ==
    /\ pc = "done"
    /\ Len(boxes1) = 2
    /\ Area(boxes1[1]) = R(0)
    /\ iou[1][1] = R(0)
    /\ ioa[1][1] = R(0)
    /\ iou[2][1] = Norm(1, 2)
    /\ iou_swapped[1][2] = Norm(1, 2)
    /\ ioa[2][1] = R(1)

\* C11 as stated: the IoU of every valid box (x2 >= x1, y2 >= y1) with
\* itself is 1.
C11_SelfIouIsOne ==
    pc = "done" =>
        \A i \in 1..Len(boxes1), j \in 1..Len(boxes2) :
            boxes1[i] = boxes2[j] => iou[i][j] = R(1)

\* C11 amended: the IoU of a box with itself is 1 when the box has positive
\* width and height, and 0 when its area is zero.
C11_SelfIouOneOrZero ==
    pc = "done" =>
        \A i \in 1..Len(boxes1), j \in 1..Len(boxes2) :
            boxes1[i] = boxes2[j] =>
                iou[i][j] = (IF FLess(boxes1[i][1], boxes1[i][3]) /\ FLess(boxes1[i][2], boxes1[i][4])
                             THEN R(1) ELSE R(0))

\* a box of positive area compared with itself
C11_Witness ==
    /\ pc = "done"
    /\ boxes1[1] = boxes2[1]
    /\ FGreater(Area(boxes1[1]), R(1))
    /\ iou[1][1] = R(1)

\* a zero-area box compared with itself
C11_WitnessZeroArea ==
    /\ pc = "done"
    /\ boxes1[1] = boxes2[1]
    /\ Area(boxes1[1]) = R(0)
    /\ iou[1][1] = R(0)

(***************************************************************************)
(* batched_nms: inputs, actions and properties                             *)
(***************************************************************************)
MaxNmsBoxes == 3

\* rows (box, score, group id): the boxes of group 0 have IoU 1/2, 1/3 and
\* 1/5 between them, two of them with equal scores; group 1 repeats two of
\* them; the last row has zero area
NmsRows ==
    { <<<<R(0), R(0), R(2), R(2)>>, R(2), 0>>,
      <<<<R(0), R(0), R(2), R(1)>>, R(2), 0>>,
      <<<<R(1), R(0), R(3), R(2)>>, R(1), 0>>,
      <<<<R(0), R(0), R(2), R(2)>>, R(1), 1>>,
      <<<<R(0), R(0), R(2), R(1)>>, R(3), 1>>,
      <<<<R(1), R(1), R(1), R(1)>>, R(1), 0>> }

NmsThresholds == { <<1, 4>>, <<1, 2>> }

InitNms ==
    /\ pc = "start"
    /\ error = "none"
    /\ CoreIdle
    /\ LateIdle
    /\ LevelIdle
    /\ TopkIdle
    /\ RpnIdle
    /\ \E n \in 0..MaxNmsBoxes : \E rows \in [1..n -> NmsRows] :
        /\ nms_boxes = [i \in 1..n |-> rows[i][1]]
        /\ nms_scores = [i \in 1..n |-> rows[i][2]]
        /\ nms_idxs = [i \in 1..n |-> rows[i][3]]
    /\ iou_threshold \in NmsThresholds
    /\ keep = <<>>
    /\ keep_loop = <<>>
    /\ keep_again = <<>>

\* keep = batched_nms(boxes, scores, idxs, iou_threshold)
BatchedNmsCall ==
    /\ pc = "start"
    /\ \E k \in batched_nms(nms_boxes, nms_scores, nms_idxs, iou_threshold) :
           keep' = ToZeroBased(k)
    /\ pc' = "nms"
    /\ UNCHANGED <<error, core_vars, late_vars, level_vars, topk_vars, rpn_vars,
                   nms_boxes, nms_scores, nms_idxs, iou_threshold, keep_loop, keep_again>>

\* the branch batched_nms takes from 40000 rows on, run on the same input
BatchedNmsLoopBranch ==
    /\ pc = "nms"
    /\ \E k \in batched_nms_loop(nms_boxes, nms_scores, nms_idxs, iou_threshold) :
           keep_loop' = ToZeroBased(k)
    /\ pc' = "nms_loop"
    /\ UNCHANGED <<error, core_vars, late_vars, level_vars, topk_vars, rpn_vars,
                   nms_boxes, nms_scores, nms_idxs, iou_threshold, keep, keep_again>>

\* batched_nms(boxes[keep], scores[keep], idxs[keep], iou_threshold)
BatchedNmsAgain ==
    /\ pc = "nms"
    /\ \E k \in batched_nms(Select(nms_boxes, ToOneBased(keep)),
                            Select(nms_scores, ToOneBased(keep)),
                            Select(nms_idxs, ToOneBased(keep)), iou_threshold) :
           keep_again' = ToZeroBased(k)
    /\ pc' = "nms_again"
    /\ UNCHANGED <<error, core_vars, late_vars, level_vars, topk_vars, rpn_vars,
                   nms_boxes, nms_scores, nms_idxs, iou_threshold, keep, keep_loop>>

NextNms == BatchedNmsCall \/ BatchedNmsLoopBranch \/ BatchedNmsAgain

SpecNms == InitNms /\ [][NextNms]_vars

\* the rows of group g among the kept 0-based indices K, as 1-based rows
KeptOf(K, g) == { K[m] + 1 : m \in { x \in 1..Len(K) : nms_idxs[K[x] + 1] = g } }

\* the sets of rows plain nms may keep when run on the boxes of group g alone
PlainNmsKeeps(g) ==
    LET mask == Mask(nms_idxs, g)
    IN  { { mask[k[m]] : m \in 1..Len(k) } :
            k \in nms(Select(nms_boxes, mask), Select(nms_scores, mask), iou_threshold) }

NonIncreasingScores(K) ==
    \A m \in 1..(Len(K) - 1) : FGeq(nms_scores[K[m] + 1], nms_scores[K[m + 1] + 1])

NoRepeats(K) == \A a, b \in 1..Len(K) : a # b => K[a] # K[b]

UnionOfGroupwiseNms(K) ==
    /\ NoRepeats(K)
    /\ Range(K) \subseteq 0..(Len(nms_boxes) - 1)
    /\ \A g \in Range(nms_idxs) : KeptOf(K, g) \in PlainNmsKeeps(g)
    /\ NonIncreasingScores(K)

\* C12: batched_nms keeps exactly the union over the group ids of what plain
\* nms keeps on the boxes of that group alone (boxes of different groups
\* never suppress one another), in non-increasing score order; both for the
\* call and for the per-group loop branch.
C12_UnionOfGroups ==
    /\ pc \in {"nms", "nms_loop", "nms_again"} => UnionOfGroupwiseNms(keep)
    /\ pc = "nms_loop" => UnionOfGroupwiseNms(keep_loop)

\* two overlapping boxes of different groups both kept, another suppressed
C12_Witness ==
    /\ pc = "nms_loop"
    /\ Len(keep) < Len(nms_boxes)
    /\ \E a, b \in 1..Len(keep) :
           /\ nms_idxs[keep[a] + 1] # nms_idxs[keep[b] + 1]
           /\ Overlaps(nms_boxes[keep[a] + 1], nms_boxes[keep[b] + 1], iou_threshold)
           /\ keep[a] \in Range(keep_loop)
           /\ keep[b] \in Range(keep_loop)

\* C13: on the same input the torchvision path and the per-group loop
\* branch keep the same set of indices.
C13_SameSetOnBothPaths ==
    pc = "nms_loop" => Range(keep) = Range(keep_loop)

\* descending score, equal scores in ascending original index
StableOrder ==
    CHOOSE o \in DescOrders(1..Len(nms_boxes), nms_scores) :
        \A a \in 1..(Len(o) - 1) : nms_scores[o[a]] = nms_scores[o[a + 1]] => o[a] < o[a + 1]

\* C14: the boxes of a group are visited in descending score order, equal
\* scores in ascending original index, and a visited box is suppressed iff
\* its IoU with a kept box of its group is strictly above the threshold.
C14_StableVisitOrder ==
    pc = "nms" =>
        Range(ToOneBased(keep)) = Range(NmsVisit(nms_boxes, nms_idxs, StableOrder, iou_threshold, 1, <<>>))

\* C15: batched_nms run again on the rows it kept removes nothing, and no
\* two kept boxes of a group have an IoU above the threshold.
C15_Idempotent ==
    pc = "nms_again" =>
        /\ Range(keep_again) = 0..(Len(keep) - 1)
        /\ \A a, b \in 1..Len(keep) :
               (a # b /\ nms_idxs[keep[a] + 1] = nms_idxs[keep[b] + 1])
                   => ~Overlaps(nms_boxes[keep[a] + 1], nms_boxes[keep[b] + 1], iou_threshold)

\* the first run suppressed a box and kept two boxes of one group
C15_Witness ==
    /\ pc = "nms_again"
    /\ Len(keep) < Len(nms_boxes)
    /\ \E a, b \in 1..Len(keep) : a # b /\ nms_idxs[keep[a] + 1] = nms_idxs[keep[b] + 1]
    /\ Len(keep_again) = Len(keep)

(***************************************************************************)
(* find_top_rpn_proposals: inputs, actions and properties                  *)
(***************************************************************************)
\* images times anchors of all levels
MaxRpnCells == 3

\* anchors (box, logit): inside the image, inside with IoU 1/2 with the
\* first, sticking out to the right, sticking out to the left and below
RpnRows ==
    { <<<<R(0), R(0), R(2), R(2)>>, R(3)>>,
      <<<<R(0), R(0), R(2), R(1)>>, R(2)>>,
      <<<<R(1), R(0), R(4), R(2)>>, R(2)>>,
      <<<<R(-1), R(-1), R(1), R(3)>>, R(1)>> }

RpnImageSizes == { <<2, 3>> }

RECURSIVE SumSeq(_)
SumSeq(q) == IF q = <<>> THEN 0 ELSE Head(q) + SumSeq(Tail(q))

\* the numbers of anchors per level that N images leave room for
RpnLevelShapes(N) ==
    { sh \in UNION { [1..L -> 1..MaxRpnCells] : L \in 1..MaxRpnCells } :
        N * SumSeq(sh) <= MaxRpnCells }

TopkArgs ==
    [nms_thresh : {<<1, 4>>}, min_box_side_len : {R(0)},
     pre_nms_topk : {1, 2}, post_nms_topk : {1, 3}, training : BOOLEAN]
    \cup
    [nms_thresh : {<<1, 2>>}, min_box_side_len : {R(1)},
     pre_nms_topk : {1, 2}, post_nms_topk : {1, 3}, training : BOOLEAN]

\* the tensors of one level: N images with K anchors each
RpnLevelInputs(N, K) == [1..N -> [1..K -> RpnRows]]

InitTopkInputs ==
    \E N \in 1..MaxRpnCells : \E sh \in RpnLevelShapes(N) :
        \E rows \in SeqProduct([l \in 1..Len(sh) |-> RpnLevelInputs(N, sh[l])]) :
            /\ proposals = [l \in 1..Len(sh) |-> [n \in 1..N |-> [a \in 1..sh[l] |-> rows[l][n][a][1]]]]
            /\ pred_objectness_logits =
                   [l \in 1..Len(sh) |-> [n \in 1..N |-> [a \in 1..sh[l] |-> rows[l][n][a][2]]]]
            /\ image_sizes \in [1..N -> RpnImageSizes]

InitTopk ==
    /\ pc = "start"
    /\ error = "none"
    /\ CoreIdle
    /\ LateIdle
    /\ LevelIdle
    /\ NmsIdle
    /\ RpnIdle
    /\ InitTopkInputs
    /\ topk_args \in TopkArgs
    /\ topk_idx = <<>>
    /\ topk_scores = <<>>
    /\ topk_proposals = <<>>
    /\ level_ids = <<>>
    /\ results = <<>>
    /\ result_levels = <<>>
    /\ survivors = <<>>

\* steps 1 and 2: the top-k anchors of every level and image, concatenated
SelectTopkStep(to) ==
    /\ \E idx \in TopkIdx(pred_objectness_logits, topk_args.pre_nms_topk) :
        /\ topk_idx' = [l \in 1..Len(idx) |-> [n \in 1..Len(idx[l]) |-> ToZeroBased(idx[l][n])]]
        /\ topk_scores' = TopkScores(pred_objectness_logits, idx, Len(image_sizes))
        /\ topk_proposals' = TopkProposals(proposals, idx, Len(image_sizes))
    /\ level_ids' = LevelIds(pred_objectness_logits, topk_args.pre_nms_topk)
    /\ pc' = to
    /\ UNCHANGED <<error, core_vars, late_vars, level_vars, nms_vars, rpn_vars, proposals, pred_objectness_logits,
                   image_sizes, topk_args, results, result_levels, survivors>>

SelectTopk == pc = "start" /\ SelectTopkStep("selected")

\* step 3: per image clip, drop the empty boxes, batched_nms by level, keep
\* post_nms_topk; the clip asserts that the boxes are finite
NmsPerImageStep(to) ==
    /\ LET N == Len(image_sizes)
           bad == { n \in 1..N : ~AllFinite(topk_proposals[n]) }
           stop == IF bad = {} THEN N + 1 ELSE CHOOSE n \in bad : \A m \in bad : n <= m
           clipped == [n \in 1..N |->
                          IF n < stop
                          THEN [i \in 1..Len(topk_proposals[n]) |-> ClipRow(topk_proposals[n][i], image_sizes[n])]
                          ELSE topk_proposals[n]]
       IN  /\ topk_proposals' = clipped
           /\ IF bad = {}
              THEN /\ \E outs \in SeqProduct([n \in 1..N |->
                              ImageOutcomes(clipped[n], topk_scores[n], level_ids, image_sizes[n], topk_args)]) :
                        /\ results' = [n \in 1..N |-> outs[n].res]
                        /\ result_levels' = [n \in 1..N |-> outs[n].levels]
                        /\ survivors' = [n \in 1..N |-> outs[n].survivors]
                   /\ pc' = to
                   /\ error' = error
              ELSE /\ pc' = "raised"
                   /\ error' = "AssertionError"
                   /\ UNCHANGED <<results, result_levels, survivors>>
    /\ UNCHANGED <<core_vars, late_vars, level_vars, nms_vars, rpn_vars, proposals, pred_objectness_logits, image_sizes,
                   topk_args, topk_idx, topk_scores, level_ids>>

NmsPerImage == pc = "selected" /\ NmsPerImageStep("done")

NextTopk == SelectTopk \/ NmsPerImage

SpecTopk == InitTopk /\ [][NextTopk]_vars

\* number of levels, of images, and of anchors of level l
NumLevels == Len(pred_objectness_logits)

NumImages == Len(image_sizes)

Hi_Wi_A(l) == Len(pred_objectness_logits[l][1])

\* the 1-based columns of level l that image n selected
Selected(l, n) == { topk_idx[l][n][c] + 1 : c \in 1..Len(topk_idx[l][n]) }

\* the columns of topk_scores that level l fills
Offset(l) == SumSeq([k \in 1..(l - 1) |-> Len(topk_idx[k][1])])

\* C16: before the NMS every level and image selects exactly
\* min(pre_nms_topk, Hi*Wi*A) distinct anchors, none of the others has a
\* strictly higher objectness than a selected one, a level with fewer anchors
\* than pre_nms_topk contributes all of them, and the concatenated rows are
\* the selected anchors (no padding, no error).
C16_TopkSelection ==
    pc \in {"selected", "done"} =>
        /\ error = "none"
        /\ \A l \in 1..NumLevels, n \in 1..NumImages :
            /\ Len(topk_idx[l][n]) = Min(topk_args.pre_nms_topk, Hi_Wi_A(l))
            /\ Cardinality(Selected(l, n)) = Len(topk_idx[l][n])
            /\ Selected(l, n) \subseteq 1..Hi_Wi_A(l)
            /\ \A a \in (1..Hi_Wi_A(l)) \ Selected(l, n), b \in Selected(l, n) :
                   ~FGreater(pred_objectness_logits[l][n][a], pred_objectness_logits[l][n][b])
            /\ Hi_Wi_A(l) < topk_args.pre_nms_topk => Selected(l, n) = 1..Hi_Wi_A(l)
            /\ \A c \in 1..Len(topk_idx[l][n]) :
                   /\ topk_scores[n][Offset(l) + c] = pred_objectness_logits[l][n][topk_idx[l][n][c] + 1]
                   /\ level_ids[Offset(l) + c] = l - 1
        /\ \A n \in 1..NumImages :
            /\ Len(topk_scores[n]) = SumSeq([l \in 1..NumLevels |-> Min(topk_args.pre_nms_topk, Hi_Wi_A(l))])
            /\ Len(topk_proposals[n]) = Len(topk_scores[n])
            /\ Len(level_ids) = Len(topk_scores[n])

\* a level with more anchors than pre_nms_topk, a lower-scored one left out
C16_Witness ==
    /\ pc = "selected"
    /\ NumLevels = 2
    /\ topk_args.pre_nms_topk = 1
    /\ Hi_Wi_A(1) = 2
    /\ \E a \in (1..2) \ Selected(1, 1), b \in Selected(1, 1) :
           FLess(pred_objectness_logits[1][1][a], pred_objectness_logits[1][1][b])
    /\ Len(topk_scores[1]) = 2

\* a level with fewer anchors than pre_nms_topk: all of them are used
C16_WitnessFewer ==
    /\ pc = "selected"
    /\ NumLevels = 2
    /\ topk_args.pre_nms_topk = 2
    /\ Hi_Wi_A(1) = 1
    /\ Hi_Wi_A(2) = 2
    /\ Len(topk_scores[1]) = 3

\* the guarded IoU of two boxes, as pairwise_iou computes it
IouOf(b1, b2) == pairwise_iou(<<b1>>, <<b2>>)[1][1]

C27_TrainingFlagHonoured ==
    pc = "done" =>
        \A n \in 1..NumImages :
            IF topk_args.training
            THEN Len(results[n].proposal_boxes) = Min(topk_args.post_nms_topk, Len(survivors[n]))
            ELSE \A l \in 0..(NumLevels - 1) :
                    Cardinality({ r \in 1..Len(result_levels[n]) : result_levels[n][r] = l })
                        = Min(topk_args.post_nms_topk,
                              Cardinality({ m \in 1..Len(survivors[n]) : survivors[n][m][3] = l }))

(***************************************************************************)
(* RPN.forward: inputs, actions and properties.  proposals and             *)
(* pred_objectness_logits are the values of outputs.predict_proposals()    *)
(* and outputs.predict_objectness_logits().                                *)
(***************************************************************************)
RpnCfgs ==
    [NMS_THRESH : {<<1, 4>>}, MIN_SIZE : {R(0)},
     PRE_NMS_TOPK_TRAIN : {2}, POST_NMS_TOPK_TRAIN : {2},
     PRE_NMS_TOPK_TEST : {1, 3}, POST_NMS_TOPK_TEST : {1, 3},
     LOSS_WEIGHT : {R(2)}, BATCH_SIZE_PER_IMAGE : {2}]
    \cup
    [NMS_THRESH : {<<1, 2>>}, MIN_SIZE : {R(1)},
     PRE_NMS_TOPK_TRAIN : {2}, POST_NMS_TOPK_TRAIN : {2},
     PRE_NMS_TOPK_TEST : {1, 3}, POST_NMS_TOPK_TEST : {1, 3},
     LOSS_WEIGHT : {R(2)}, BATCH_SIZE_PER_IMAGE : {2}]

InitRpn ==
    /\ pc = "start"
    /\ error = "none"
    /\ CoreIdle
    /\ LateIdle
    /\ LevelIdle
    /\ NmsIdle
    /\ InitTopkInputs
    /\ topk_args = <<>>
    /\ topk_idx = <<>>
    /\ topk_scores = <<>>
    /\ topk_proposals = <<>>
    /\ level_ids = <<>>
    /\ results = <<>>
    /\ result_levels = <<>>
    /\ survivors = <<>>
    /\ rpn_cfg \in RpnCfgs
    /\ \E training \in BOOLEAN : rpn = RPNObject(rpn_cfg, training)
    /\ losses = <<>>
    /\ rpn_out = <<>>
    /\ rpn_trace = <<>>

\* forward up to the call of find_top_rpn_proposals: in training the losses
\* of RPNOutputs times loss_weight, otherwise the empty mapping
RpnForwardLosses ==
    /\ pc = "start"
    /\ IF rpn.training
       THEN LET out == RPNOutputsLosses(rpn.batch_size_per_image, Len(image_sizes))
            IN  /\ rpn_trace' = <<"_get_ground_truth", "subsample_labels", "rpn_losses">>
                /\ IF out.raised = "none"
                   THEN /\ losses' = [k \in DOMAIN out.losses |->
                                         PyMul(out.losses[k], PyFloat(rpn.loss_weight))]
                        /\ topk_args' = FindTopArgs(rpn)
                        /\ pc' = "find_top"
                        /\ error' = error
                   ELSE /\ error' = out.raised
                        /\ pc' = "raised"
                        /\ UNCHANGED <<losses, topk_args>>
       ELSE /\ losses' = <<>>
            /\ topk_args' = FindTopArgs(rpn)
            /\ pc' = "find_top"
            /\ UNCHANGED <<error, rpn_trace>>
    /\ UNCHANGED <<core_vars, late_vars, level_vars, nms_vars, rpn_cfg, rpn, rpn_out, proposals, pred_objectness_logits,
                   image_sizes, topk_idx, topk_scores, topk_proposals, level_ids, results,
                   result_levels, survivors>>

RpnSelectTopk == pc = "find_top" /\ SelectTopkStep("rpn_selected")

RpnNmsPerImage == pc = "rpn_selected" /\ NmsPerImageStep("rpn_found")

\* the re-sort of every image's proposals by objectness, and the return
RpnSortProposals ==
    /\ pc = "rpn_found"
    /\ \E inds \in SeqProduct([n \in 1..Len(results) |->
                                  SortDescending(results[n].objectness_logits)]) :
           rpn_out' = [n \in 1..Len(results) |-> InstancesGetItem(results[n], inds[n])]
    /\ pc' = "returned"
    /\ UNCHANGED <<error, core_vars, late_vars, level_vars, nms_vars, topk_vars, rpn_cfg, rpn, losses, rpn_trace>>

NextRpn == RpnForwardLosses \/ RpnSelectTopk \/ RpnNmsPerImage \/ RpnSortProposals

SpecRpn == InitRpn /\ [][NextRpn]_vars

Count(seq, x) == Cardinality({ i \in 1..Len(seq) : seq[i] = x })

\* the (box, objectness) pairs of one image's proposals, in order
Pairs(p) == [r \in 1..Len(p.proposal_boxes) |-> <<p.proposal_boxes[r], p.objectness_logits[r]>>]

C19_ModeDecidesPath ==
    pc \in {"returned", "raised"} =>
        /\ pc = "returned"
        /\ Len(rpn_out) = Len(image_sizes)
        /\ IF rpn.training
           THEN /\ topk_args.pre_nms_topk = rpn_cfg.PRE_NMS_TOPK_TRAIN
                /\ topk_args.post_nms_topk = rpn_cfg.POST_NMS_TOPK_TRAIN
                /\ DOMAIN losses = {"loss_rpn_cls", "loss_rpn_loc"}
                /\ \A k \in DOMAIN losses :
                       /\ losses[k].type = "Tensor"
                       /\ losses[k].value[1] = "mul"
                       /\ losses[k].value[3] = rpn.loss_weight
           ELSE /\ topk_args.pre_nms_topk = rpn_cfg.PRE_NMS_TOPK_TEST
                /\ topk_args.post_nms_topk = rpn_cfg.POST_NMS_TOPK_TEST
                /\ rpn_trace = <<>>
                /\ DOMAIN losses = {}

\* C29: in training mode loss_rpn_loc is a number: the smooth-L1 distance
\* between the predicted and the target deltas of the positive anchors
\* times 1 / (batch_size_per_image * num_images).
C29_LocalizationLossIsNumber ==
    (rpn.training /\ pc \in {"find_top", "raised"}) =>
        /\ error = "none"
        /\ "loss_rpn_loc" \in DOMAIN losses
        /\ losses["loss_rpn_loc"].type = "Tensor"
        /\ rpn_losses[2].type = "Tensor"

(***************************************************************************)
(* assign_boxes_to_levels: inputs, action and properties                   *)
(***************************************************************************)
MaxLevelBoxes == 2

\* boxes (0, 0, w, h) of area 0, 1, 4, 9, 16, 36, 64 and 256
LevelBoxes ==
    { <<R(0), R(0), R(w), R(h)>> :
        w \in {0, 1, 2, 3, 4, 6, 8, 16}, h \in {0, 1, 2, 3, 4, 6, 8, 16} } \cap
    { <<R(0), R(0), R(1), R(0)>>, <<R(0), R(0), R(1), R(1)>>, <<R(0), R(0), R(1), R(4)>>,
      <<R(0), R(0), R(2), R(2)>>, <<R(0), R(0), R(3), R(3)>>, <<R(0), R(0), R(4), R(4)>>,
      <<R(0), R(0), R(6), R(6)>>, <<R(0), R(0), R(8), R(8)>>, <<R(0), R(0), R(16), R(16)>> }

\* the levels ROIPooler.__init__ accepts: 0 < min_level <= canonical_level <= max_level
LevelArgs ==
    { a \in [min_level : {1, 2}, max_level : {2, 3, 5}, canonical_box_size : {2, 4},
             canonical_level : {2, 3, 4}] :
        a.min_level <= a.canonical_level /\ a.canonical_level <= a.max_level }

InitLevels ==
    /\ pc = "start"
    /\ error = "none"
    /\ CoreIdle
    /\ LateIdle
    /\ NmsIdle
    /\ TopkIdle
    /\ RpnIdle
    /\ \E n \in 0..MaxLevelBoxes : \E flat \in [1..n -> LevelBoxes] : \E k \in 0..n :
           box_lists = <<SubSeq(flat, 1, k), SubSeq(flat, k + 1, n)>>
    /\ level_args \in LevelArgs
    /\ level_assignments = <<>>

AssignBoxesToLevels ==
    /\ pc = "start"
    /\ level_assignments' = assign_boxes_to_levels(box_lists, level_args)
    /\ pc' = "done"
    /\ UNCHANGED <<error, core_vars, late_vars, nms_vars, topk_vars, rpn_vars, box_lists, level_args>>

NextLevels == AssignBoxesToLevels

SpecLevels == InitLevels /\ [][NextLevels]_vars

\* 4^k as a rational
Pow4(k) == IF k >= 0 THEN R(Pow2(2 * k)) ELSE <<1, Pow2(-2 * k)>>

\* the levels k with 2^k <= sqrt(area) / canonical_box_size < 2^(k+1)
MaxShift == 6

ShiftsOf(area) ==
    { k \in (-MaxShift)..MaxShift :
        /\ FLeq(FMul(Pow4(k), R(level_args.canonical_box_size * level_args.canonical_box_size)), area)
        /\ FLess(area, FMul(Pow4(k + 1), R(level_args.canonical_box_size * level_args.canonical_box_size))) }

\* C20: the level index of every box lies in 0..max_level - min_level and is
\* clamp(floor(canonical_level + log2(sqrt(area) / canonical_box_size)),
\* min_level, max_level) - min_level; a box with sqrt(area) =
\* canonical_box_size gets canonical_level, the index does not decrease with
\* the area, and a zero-area box gets the lowest level, without error.
C20_LevelAssignment ==
    pc = "done" =>
        LET boxes == Concat(box_lists)
            a == level_args
        IN  /\ error = "none"
            /\ Len(level_assignments) = Len(boxes)
            /\ \A i \in 1..Len(boxes) :
                /\ level_assignments[i] \in 0..(a.max_level - a.min_level)
                /\ Area(boxes[i]) = R(0) => level_assignments[i] = 0
                /\ Area(boxes[i]) # R(0) =>
                       /\ Cardinality(ShiftsOf(Area(boxes[i]))) = 1
                       /\ \A k \in ShiftsOf(Area(boxes[i])) :
                              level_assignments[i] =
                                  Min(Max(a.canonical_level + k, a.min_level), a.max_level) - a.min_level
                /\ Area(boxes[i]) = R(a.canonical_box_size * a.canonical_box_size)
                       => level_assignments[i] + a.min_level = a.canonical_level
                /\ \A j \in 1..Len(boxes) :
                       FLeq(Area(boxes[i]), Area(boxes[j])) => level_assignments[i] <= level_assignments[j]

\* a zero-area box on the lowest level next to a box clamped to the highest
C20_Witness ==
    /\ pc = "done"
    /\ LET boxes == Concat(box_lists)
       IN  /\ Len(boxes) = 2
           /\ Area(boxes[1]) = R(0)
           /\ level_assignments[1] = 0
           /\ ShiftsOf(Area(boxes[2])) # {}
           /\ \A k \in ShiftsOf(Area(boxes[2])) : level_args.canonical_level + k > level_args.max_level
           /\ level_assignments[2] = level_args.max_level - level_args.min_level
           /\ level_assignments[2] > 0

(***************************************************************************)
(* ROIPooler: construction, forward, and their properties                  *)
(***************************************************************************)
IsPow2(n) == n >= 1 /\ Pow2(Log2(n)) = n

\* math.isclose(level, int(level)) for level = -math.log2(scale), scale > 0:
\* the logarithm of a ratio of small integers is an integer only for a power of two
IsCloseToInt(scale) ==
    \/ scale[1] = 1 /\ IsPow2(scale[2])
    \/ scale[2] = 1 /\ IsPow2(scale[1])

\* int(-math.log2(scale)) for a power of two
LevelOfScale(scale) == IF scale[1] = 1 THEN Log2(scale[2]) ELSE -Log2(scale[1])

ROIPoolerInit(a) ==
    LET output_size == <<a.output_size, a.output_size>>
        min_level == LevelOfScale(a.scales[1])
        max_level == LevelOfScale(a.scales[Len(a.scales)])
    IN  IF a.pooler_type # "ROIPool" THEN [error |-> "AssertionError"]
        ELSE IF ~(IsCloseToInt(a.scales[1]) /\ IsCloseToInt(a.scales[Len(a.scales)]))
        THEN [error |-> "AssertionError"]
        ELSE IF Len(a.scales) # max_level - min_level + 1 THEN [error |-> "AssertionError"]
        ELSE IF ~(0 < min_level /\ min_level <= max_level) THEN [error |-> "AssertionError"]
        ELSE IF Len(a.scales) > 1 /\ ~(min_level <= a.canonical_level /\ a.canonical_level <= max_level)
        THEN [error |-> "AssertionError"]
        ELSE IF ~(a.canonical_box_size > 0) THEN [error |-> "AssertionError"]
        ELSE [error |-> "none",
              output_size |-> output_size,
              level_poolers |-> [l \in 1..Len(a.scales) |-> [spatial_scale |-> a.scales[l]]],
              min_level |-> min_level,
              max_level |-> max_level,
              canonical_level |-> a.canonical_level,
              canonical_box_size |-> a.canonical_box_size]

_fmt_box_list(box_tensor, batch_index) ==
    [k \in 1..Len(box_tensor) |-> <<R(batch_index)>> \o box_tensor[k]]

convert_boxes_to_pooler_format(lists) ==
    Concat([i \in 1..Len(lists) |-> _fmt_box_list(lists[i], i - 1)])

\* torchvision's RoIPool: one crop per row, cut from the feature map of the
\* image the row's first column names, at the module's spatial_scale
RoIPool(level_pooler, x_level, rois) ==
    [k \in 1..Len(rois) |->
        [fmap |-> x_level.fmap,
         image |-> Floor(rois[k][1]),
         box |-> SubSeq(rois[k], 2, 5),
         spatial_scale |-> level_pooler.spatial_scale]]

\* rows assigned to this level or a lower one
LevelIndsUpTo(assignments, level) ==
    Ascending({ i \in 1..Len(assignments) : assignments[i] <= level })

\* torch.nonzero(level_assignments == level).squeeze(1), one-based
LevelInds(assignments, level) ==
    Ascending({ i \in 1..Len(assignments) : assignments[i] = level })

\* output[inds] = crops
IndexPut(output, inds, crops) ==
    [i \in 1..Len(output) |->
        IF \E k \in 1..Len(inds) : inds[k] = i
        THEN crops[CHOOSE k \in 1..Len(inds) : inds[k] = i]
        ELSE output[i]]

MaxPoolBoxes == 2

PoolScales ==
    { << <<1, 4>> >>,
      << <<1, 4>>, <<1, 8>> >>,
      << <<1, 4>>, <<1, 8>>, <<1, 16>> >>,
      << <<1, 4>>, <<1, 7>>, <<1, 16>> >>,
      << <<1, 4>>, <<1, 16>> >>,
      << <<1, 3>>, <<1, 6>> >>,
      << <<1, 8>>, <<1, 4>> >>,
      << <<1, 1>>, <<1, 2>> >> }

PoolArgs ==
    [output_size : {2}, scales : PoolScales, pooler_type : {"ROIPool"},
     canonical_box_size : {2}, canonical_level : {3, 5}]
    \cup [output_size : {2}, scales : { << <<1, 4>> >> }, pooler_type : {"ROIAlignV2"},
          canonical_box_size : {2}, canonical_level : {3}]
    \cup [output_size : {2}, scales : { << <<1, 4>> >> }, pooler_type : {"ROIPool"},
          canonical_box_size : {0}, canonical_level : {3}]

\* boxes of area 0, 4, 16 and 64
PoolBoxes == { <<R(0), R(0), R(w), R(w)>> : w \in {0, 2, 4, 8} }

\* the feature maps of num_levels levels for a batch of N images
FeatureMaps(num_levels, N) == [l \in 1..num_levels |-> [fmap |-> l, N |-> N]]

PoolBoxLists ==
    UNION { { <<flat>> : flat \in [1..n -> PoolBoxes] } \cup
            { <<SubSeq(flat, 1, k), SubSeq(flat, k + 1, n)>> : flat \in [1..n -> PoolBoxes], k \in 0..n }
            : n \in 0..MaxPoolBoxes }

not_pool_vars == <<early_vars, det_vars, ord_vars, samp_vars>>

InitPooler ==
    /\ pc = "start"
    /\ error = "none"
    /\ EarlyIdle
    /\ DetIdle
    /\ OrdIdle
    /\ SampIdle
    /\ pool_args \in PoolArgs
    /\ pooler = <<>>
    /\ pool_x = <<>>
    /\ pool_box_lists = <<>>
    /\ pooler_fmt_boxes = <<>>
    /\ pool_levels = <<>>
    /\ pool_level = 0
    /\ pool_output = <<>>
    /\ pool_writes = <<>>

PoolerConstruct ==
    /\ pc = "start"
    /\ LET obj == ROIPoolerInit(pool_args)
       IN  IF obj.error # "none"
           THEN /\ error' = obj.error
                /\ pc' = "construction_raised"
                /\ UNCHANGED pooler
           ELSE /\ pooler' = obj
                /\ pc' = "constructed"
                /\ UNCHANGED error
    /\ UNCHANGED <<not_pool_vars, pool_args, pool_x, pool_box_lists, pooler_fmt_boxes, pool_levels,
                   pool_level, pool_output, pool_writes>>

PoolerForward ==
    /\ pc = "constructed"
    /\ \E num_maps \in 1..(Len(pooler.level_poolers) + 1), N \in 1..2, lists \in PoolBoxLists :
        LET x == FeatureMaps(num_maps, N)
            num_level_assignments == Len(pooler.level_poolers)
            fmt == convert_boxes_to_pooler_format(lists)
        IN  /\ pool_x' = x
            /\ pool_box_lists' = lists
            /\ IF Len(x) # num_level_assignments \/ Len(lists) # x[1].N
               THEN /\ error' = "AssertionError"
                    /\ pc' = "forward_raised"
                    /\ UNCHANGED <<pooler_fmt_boxes, pool_levels, pool_output, pool_writes>>
               ELSE IF num_level_assignments = 1
               THEN /\ pooler_fmt_boxes' = fmt
                    /\ pool_output' = RoIPool(pooler.level_poolers[1], x[1], fmt)
                    /\ pool_writes' = [i \in 1..Len(fmt) |-> <<0>>]
                    /\ pc' = "returned"
                    /\ UNCHANGED <<error, pool_levels>>
               ELSE /\ pooler_fmt_boxes' = fmt
                    /\ pool_levels' = assign_boxes_to_levels(lists, pooler)
                    /\ pool_output' = [i \in 1..Len(fmt) |-> "zeros"]
                    /\ pool_writes' = [i \in 1..Len(fmt) |-> <<>>]
                    /\ pc' = "pooling"
                    /\ UNCHANGED error
    /\ UNCHANGED <<not_pool_vars, pool_args, pooler, pool_level>>

\* one pass of the loop over zip(x, self.level_poolers)
PoolLevel ==
    /\ pc = "pooling"
    /\ pool_level < Min(Len(pool_x), Len(pooler.level_poolers))
    /\ LET level == pool_level
           inds == LevelInds(pool_levels, level)
           pooler_fmt_boxes_level == Select(pooler_fmt_boxes, inds)
           crops == RoIPool(pooler.level_poolers[level + 1], pool_x[level + 1], pooler_fmt_boxes_level)
       IN  /\ pool_output' = IndexPut(pool_output, inds, crops)
           /\ pool_writes' = [i \in 1..Len(pool_writes) |->
                                 IF \E k \in 1..Len(inds) : inds[k] = i
                                 THEN Append(pool_writes[i], level) ELSE pool_writes[i]]
    /\ pool_level' = pool_level + 1
    /\ UNCHANGED <<pc, error, not_pool_vars, pool_args, pooler, pool_x, pool_box_lists,
                   pooler_fmt_boxes, pool_levels>>

PoolerReturn ==
    /\ pc = "pooling"
    /\ pool_level = Min(Len(pool_x), Len(pooler.level_poolers))
    /\ pc' = "returned"
    /\ UNCHANGED <<error, not_pool_vars, pool_vars>>

NextPooler == PoolerConstruct \/ PoolerForward \/ PoolLevel \/ PoolerReturn

SpecPooler == InitPooler /\ [][NextPooler]_vars

\* the zero-based image whose box list holds row i of the concatenation
ImageOfRow(lists, i) ==
    CHOOSE j \in 0..(Len(lists) - 1) :
        LET before == Len(Concat(SubSeq(lists, 1, j)))
        IN  before < i /\ i <= before + Len(lists[j + 1])

\* the zero-based level a row is pooled from
AssignedLevel(i) == IF Len(pooler.level_poolers) = 1 THEN 0 ELSE pool_levels[i]

\* C21: forward returns one crop per box in the concatenated input order;
\* row i is written exactly once, by the pooler of the one level assigned to
\* box i, from that level's feature map and the image of box i.
C21_OneCropPerBox ==
    pc = "returned" =>
        LET boxes == Concat(pool_box_lists)
        IN  /\ Len(pool_output) = Len(boxes)
            /\ \A i \in 1..Len(boxes) :
                /\ pool_writes[i] = <<AssignedLevel(i)>>
                /\ pool_output[i] =
                       [fmap |-> pool_x[AssignedLevel(i) + 1].fmap,
                        image |-> ImageOfRow(pool_box_lists, i),
                        box |-> boxes[i],
                        spatial_scale |-> pool_args.scales[AssignedLevel(i) + 1]]

\* two images, the second image's box on a lower level than the first's
C21_Witness ==
    /\ pc = "returned"
    /\ Len(pool_box_lists) = 2
    /\ Len(pool_box_lists[1]) = 1
    /\ Len(pool_box_lists[2]) = 1
    /\ Len(pooler.level_poolers) = 3
    /\ pool_levels = <<2, 0>>
    /\ pool_output[1].image = 0 /\ pool_output[1].fmap = 3
    /\ pool_output[2].image = 1 /\ pool_output[2].fmap = 1

\* the scales form a decreasing pyramid of powers of two with factor 1/2
IsPyramid(scales) ==
    /\ \A l \in 1..Len(scales) : IsCloseToInt(scales[l])
    /\ \A l \in 1..(Len(scales) - 1) : scales[l] = FMul(R(2), scales[l + 1])

\* C22: shape and level mismatches are rejected by the construction and
\* never by a forward call: a constructed pooler has a power-of-two pyramid
\* of scales and (multi-level) a canonical_level within its levels, and no
\* forward call raises for a feature-level count that differs from the
\* pooler-level count.
C22_RejectedAtConstruction ==
    /\ pc \in {"constructed", "pooling", "returned", "forward_raised"} =>
           /\ IsPyramid(pool_args.scales)
           /\ Len(pool_args.scales) > 1 =>
                  pooler.min_level <= pooler.canonical_level /\ pooler.canonical_level <= pooler.max_level
    /\ ~(pc = "forward_raised" /\ Len(pool_x) # Len(pooler.level_poolers))

(***************************************************************************)
(* fast_rcnn_inference_single_image.  boxes is R x (C * 4), scores is      *)
(* R x (K + 1); C is 1 (class-agnostic regression) or K.                   *)
(***************************************************************************)
\* scores[:, :-1]
DropLastColumn(scores) == [r \in 1..Len(scores) |-> SubSeq(scores[r], 1, Len(scores[r]) - 1)]

\* boxes.reshape(-1, 4)
ReshapeRows4(boxes) ==
    Concat([r \in 1..Len(boxes) |->
        [c \in 1..(Len(boxes[r]) \div 4) |-> SubSeq(boxes[r], 4 * (c - 1) + 1, 4 * c)]])

\* Boxes.clip(image_shape): every row clipped to the image, in place
BoxesClip(rows, image_shape) == [i \in 1..Len(rows) |-> ClipRow(rows[i], image_shape)]

\* the rows taken class by class
ViewCxRx4(rows, C) ==
    [r \in 1..(Len(rows) \div C) |-> [c \in 1..C |-> rows[(c - 1) * (Len(rows) \div C) + r]]]

\* .view(-1, num_bbox_reg_classes, 4)
ViewRxCx4(rows, C) ==
    [r \in 1..(Len(rows) \div C) |-> [c \in 1..C |-> rows[(r - 1) * C + c]]]

\* scores >= score_thresh
FilterMaskOrEqual(scores, score_thresh) ==
    [r \in 1..Len(scores) |-> [k \in 1..Len(scores[r]) |-> FGeq(scores[r][k], score_thresh)]]

\* scores > score_thresh
FilterMask(scores, score_thresh) ==
    [r \in 1..Len(scores) |-> [k \in 1..Len(scores[r]) |-> FGreater(scores[r][k], score_thresh)]]

\* filter_mask.nonzero(): the zero-based (row, column) pairs in row-major order
Nonzero(mask) ==
    LET K == IF Len(mask) = 0 THEN 1 ELSE Len(mask[1])
        flat == Ascending({ (r - 1) * K + k : r \in 1..Len(mask), k \in 1..K } \cap
                          { i \in 1..(Len(mask) * K) : mask[((i - 1) \div K) + 1][((i - 1) % K) + 1] })
    IN  [j \in 1..Len(flat) |-> <<(flat[j] - 1) \div K, (flat[j] - 1) % K>>]

Column(rows, c) == [j \in 1..Len(rows) |-> rows[j][c]]

\* keep[:topk_per_image] whatever the sign of topk_per_image
KeepTopkAlways(keep_, topk_per_image) == Prefix(keep_, Max(topk_per_image, 0))

\* keep[:topk_per_image] if topk_per_image >= 0
KeepTopk(keep_, topk_per_image) ==
    IF topk_per_image >= 0 THEN Prefix(keep_, topk_per_image) ELSE keep_

MaxDetRows == 2

\* the class scores of one prediction, background last
DetScoreRows ==
    { <<<<3, 10>>, <<6, 10>>, <<1, 10>>>>,
      <<<<6, 10>>, <<3, 10>>, <<1, 10>>>>,
      <<<<1, 10>>, <<1, 10>>, <<8, 10>>>>,
      <<<<1, 20>>, <<9, 10>>, <<1, 20>>>> }

DetBox1 == <<R(0), R(0), R(2), R(2)>>

DetBox2 == <<R(0), R(0), R(4), R(2)>>

DetBox3 == <<R(1), R(-1), R(3), R(2)>>

\* the boxes of one prediction: C = 1, or C = K = 2
DetBoxRows(C) ==
    IF C = 1 THEN { DetBox1, DetBox2, DetBox3 }
    ELSE { DetBox1 \o DetBox2, DetBox2 \o DetBox3, DetBox3 \o DetBox1 }

DetInputs ==
    UNION { [boxes : [1..Rn -> DetBoxRows(C)],
             scores : [1..Rn -> DetScoreRows],
             image_shape : { <<2, 3>> },
             score_thresh : { <<1, 2>>, <<1, 20>>, <<19, 20>> },
             nms_thresh : { <<1, 2>> },
             topk_per_image : {-1, 1, 2}] : Rn \in 0..MaxDetRows, C \in {1, 2} }

not_det_vars == <<early_vars, pool_vars, ord_vars, samp_vars>>

InitDet ==
    /\ pc = "start"
    /\ error = "none"
    /\ EarlyIdle
    /\ PoolIdle
    /\ OrdIdle
    /\ SampIdle
    /\ det_in \in DetInputs
    /\ det_filter_inds = <<>>
    /\ det_boxes = <<>>
    /\ det_scores = <<>>
    /\ det_nms_keep = <<>>
    /\ det_res = <<>>
    /\ det_rows = <<>>

\* lines 502-517: drop the background column, clip, filter by score
FilterByScore ==
    /\ pc = "start"
    /\ LET scores == DropLastColumn(det_in.scores)
           num_bbox_reg_classes == IF Len(det_in.boxes) = 0 THEN 1 ELSE Len(det_in.boxes[1]) \div 4
           boxes == ViewRxCx4(TensorOf(BoxesClip(ReshapeRows4(det_in.boxes), det_in.image_shape)),
                              num_bbox_reg_classes)
           filter_mask == FilterMask(scores, det_in.score_thresh)
           filter_inds == Nonzero(filter_mask)
       IN  /\ det_filter_inds' = filter_inds
           /\ det_boxes' = [j \in 1..Len(filter_inds) |->
                               IF num_bbox_reg_classes = 1
                               THEN boxes[filter_inds[j][1] + 1][1]
                               ELSE boxes[filter_inds[j][1] + 1][filter_inds[j][2] + 1]]
           /\ det_scores' = [j \in 1..Len(filter_inds) |->
                               scores[filter_inds[j][1] + 1][filter_inds[j][2] + 1]]
    /\ pc' = "filtered"
    /\ UNCHANGED <<error, not_det_vars, det_in, det_nms_keep, det_res, det_rows>>

\* lines 520-532: per-class NMS, top-k, result
NmsAndTopk ==
    /\ pc = "filtered"
    /\ \E keep_ \in batched_nms(det_boxes, det_scores, Column(det_filter_inds, 2), det_in.nms_thresh) :
        LET kept == KeepTopk(keep_, det_in.topk_per_image)
            filter_inds == Select(det_filter_inds, kept)
        IN  /\ det_nms_keep' = keep_
            /\ det_res' = [size |-> det_in.image_shape,
                           pred_boxes |-> Select(det_boxes, kept),
                           pred_scores |-> Select(det_scores, kept),
                           pred_classes |-> Column(filter_inds, 2)]
            /\ det_rows' = Column(filter_inds, 1)
    /\ pc' = "done"
    /\ UNCHANGED <<error, not_det_vars, det_in, det_filter_inds, det_boxes, det_scores>>

NextDet == FilterByScore \/ NmsAndTopk

SpecDet == InitDet /\ [][NextDet]_vars

NumDetections == Len(det_res.pred_scores)

NumClasses == Len(det_in.scores[1]) - 1

C23_WitnessEmpty ==
    /\ pc = "done"
    /\ Len(det_in.scores) = 2
    /\ det_in.score_thresh = <<19, 20>>
    /\ NumDetections = 0
    /\ det_rows = <<>>

\* the (prediction, class) pairs of the returned detections
Returned == { <<det_rows[j], det_res.pred_classes[j]>> : j \in 1..NumDetections }

\* the (prediction, class) pairs batched_nms kept
Survivors == { det_filter_inds[det_nms_keep[m]] : m \in 1..Len(det_nms_keep) }

ScoreOfPair(pr) == det_in.scores[pr[1] + 1][pr[2] + 1]

\* the clipped input box of a prediction for a class
BoxOfPair(pr) ==
    LET row == det_in.boxes[pr[1] + 1]
        c == IF Len(row) = 4 THEN 0 ELSE pr[2]
    IN  ClipRow(SubSeq(row, 4 * c + 1, 4 * c + 4), det_in.image_shape)

\* the survivors are a result of per-class NMS on the pairs above the threshold
SurvivorsArePerClassNms ==
    LET Above == { det_filter_inds[k] : k \in 1..Len(det_filter_inds) }
    IN  /\ Survivors \subseteq Above
        /\ \A a, b \in Survivors :
               a # b /\ a[2] = b[2] =>
                   ~FGreater(NmsIou(BoxOfPair(a), BoxOfPair(b)), det_in.nms_thresh)
        /\ \A a \in Above \ Survivors : \E b \in Survivors :
               /\ b[2] = a[2]
               /\ FGeq(ScoreOfPair(b), ScoreOfPair(a))
               /\ FGreater(NmsIou(BoxOfPair(a), BoxOfPair(b)), det_in.nms_thresh)

C24_WitnessAll ==
    /\ pc = "done"
    /\ det_in.topk_per_image = -1
    /\ NumDetections = 3
    /\ Len(det_filter_inds) = 4

C25_WitnessAgnostic ==
    /\ pc = "done"
    /\ Len(det_in.boxes) = 2
    /\ Len(det_in.boxes[1]) = 4
    /\ det_in.boxes[1] # det_in.boxes[2]
    /\ \E j \in 1..NumDetections :
        /\ det_rows[j] = 1
        /\ det_res.pred_classes[j] = 1

(***************************************************************************)
(* The loop of batched_nms over the group ids, one pass per group: the     *)
(* passes are run in any order, and the nms call of a pass and its write   *)
(* to result_mask may interleave with those of other passes.               *)
(***************************************************************************)
\* result_mask cleared but for the rows of this pass
MaskOverwrite(rm, mask, keep_) ==
    [i \in 1..Len(rm) |-> \E m \in 1..Len(keep_) : mask[keep_[m]] = i]

\* result_mask[mask[keep]] = True
MaskWrite(rm, mask, keep_) ==
    [i \in 1..Len(rm) |-> rm[i] \/ \E m \in 1..Len(keep_) : mask[keep_[m]] = i]

MaxOrderBoxes == 3

\* rows (box, score, group id): three groups, overlapping boxes in groups 0
\* and 1, scores distinct but for the last row
OrderRows ==
    { <<<<R(0), R(0), R(2), R(2)>>, R(5), 0>>,
      <<<<R(0), R(0), R(2), R(1)>>, R(4), 0>>,
      <<<<R(0), R(0), R(2), R(2)>>, R(2), 1>>,
      <<<<R(0), R(0), R(2), R(1)>>, R(3), 1>>,
      <<<<R(1), R(0), R(3), R(2)>>, R(1), 2>>,
      <<<<R(0), R(0), R(2), R(1)>>, R(5), 1>> }

not_ord_vars == <<early_vars, pool_vars, det_vars, samp_vars>>

InitOrder ==
    /\ pc = "start"
    /\ error = "none"
    /\ EarlyIdle
    /\ PoolIdle
    /\ DetIdle
    /\ SampIdle
    /\ \E n \in 0..MaxOrderBoxes : \E rows \in [1..n -> OrderRows] :
        ord_in = [boxes |-> [i \in 1..n |-> rows[i][1]],
                  scores |-> [i \in 1..n |-> rows[i][2]],
                  idxs |-> [i \in 1..n |-> rows[i][3]],
                  iou_threshold |-> <<1, 4>>]
    /\ ord_pending = {}
    /\ ord_local = <<>>
    /\ result_mask = <<>>
    /\ ord_keep = <<>>
    /\ ord_trace = <<>>

\* result_mask = scores.new_zeros(...); the ids of torch.unique(idxs)
LoopBegin ==
    /\ pc = "start"
    /\ result_mask' = [i \in 1..Len(ord_in.scores) |-> FALSE]
    /\ ord_pending' = Range(ord_in.idxs)
    /\ ord_local' = [g \in {} |-> <<>>]
    /\ pc' = "loop"
    /\ UNCHANGED <<error, not_ord_vars, ord_in, ord_keep, ord_trace>>

\* mask = (idxs == i).nonzero(); keep = nms(boxes[mask], scores[mask], iou_threshold)
GroupNms ==
    /\ pc = "loop"
    /\ \E g \in ord_pending :
        LET mask == Mask(ord_in.idxs, g)
        IN  \E k \in nms(Select(ord_in.boxes, mask), Select(ord_in.scores, mask), ord_in.iou_threshold) :
                /\ ord_local' = [h \in DOMAIN ord_local \cup {g} |-> IF h = g THEN k ELSE ord_local[h]]
                /\ ord_pending' = ord_pending \ {g}
                /\ ord_trace' = Append(ord_trace, <<"nms", g>>)
    /\ UNCHANGED <<pc, error, not_ord_vars, ord_in, result_mask, ord_keep>>

\* result_mask[mask[keep]] = True
GroupWrite ==
    /\ pc = "loop"
    /\ \E g \in DOMAIN ord_local :
        /\ result_mask' = MaskWrite(result_mask, Mask(ord_in.idxs, g), ord_local[g])
        /\ ord_local' = [h \in DOMAIN ord_local \ {g} |-> ord_local[h]]
        /\ ord_trace' = Append(ord_trace, <<"write", g>>)
    /\ UNCHANGED <<pc, error, not_ord_vars, ord_in, ord_pending, ord_keep>>

\* keep = result_mask.nonzero(); keep = keep[scores[keep].argsort(descending=True)]
LoopEnd ==
    /\ pc = "loop"
    /\ ord_pending = {}
    /\ DOMAIN ord_local = {}
    /\ ord_keep' \in DescOrders({ i \in 1..Len(result_mask) : result_mask[i] }, ord_in.scores)
    /\ pc' = "done"
    /\ UNCHANGED <<error, not_ord_vars, ord_in, ord_pending, ord_local, result_mask, ord_trace>>

NextOrder == LoopBegin \/ GroupNms \/ GroupWrite \/ LoopEnd

SpecOrder == InitOrder /\ [][NextOrder]_vars

NoEqualScores(scores) ==
    \A i, j \in 1..Len(scores) : i # j => scores[i] # scores[j]

\* C26: without equal scores, every order of the passes over the group
\* ids, run one after the other or interleaved, ends with the same kept
\* indices in the same output order: those of the loop run in the order of
\* the group ids and of torchvision's batched_nms.
C26_OrderIndependent ==
    pc = "done" /\ NoEqualScores(ord_in.scores) =>
        /\ batched_nms_loop(ord_in.boxes, ord_in.scores, ord_in.idxs, ord_in.iou_threshold) = {ord_keep}
        /\ box_ops_batched_nms(ord_in.boxes, ord_in.scores, ord_in.idxs, ord_in.iou_threshold) = {ord_keep}

\* two groups whose passes interleave, the higher id first, with a
\* suppressed row
C26_Witness ==
    /\ pc = "done"
    /\ NoEqualScores(ord_in.scores)
    /\ ord_in.idxs = <<0, 0, 1>>
    /\ ord_trace = << <<"nms", 1>>, <<"nms", 0>>, <<"write", 1>>, <<"write", 0>> >>
    /\ ord_keep = <<1, 3>>

(***************************************************************************)
(* subsample_labels and the resample closure of RPNOutputs.losses.         *)
(* torch.randperm is any permutation.                                      *)
(***************************************************************************)
\* k draws from 0..n-1, repeats allowed
RandomDraws(n, k) == [1..Min(k, n) -> 0..(n - 1)]

\* torch.randperm(n)[:k], k >= 0
RandpermPrefix(n, k) == { Prefix(perm, k) : perm \in Perms(0..(n - 1)) }

\* int(num_samples * positive_fraction), both non-negative
NumPosWanted(num_samples, positive_fraction) == Floor(FMul(R(num_samples), positive_fraction))

\* the (pos_idx, neg_idx) pairs subsample_labels may return, zero-based
subsample_labels(labels, num_samples, positive_fraction, bg_label) ==
    LET positive == ToZeroBased(Ascending({ i \in 1..Len(labels) : labels[i] # -1 /\ labels[i] # bg_label }))
        negative == ToZeroBased(Ascending({ i \in 1..Len(labels) : labels[i] = bg_label }))
        num_pos == Min(Len(positive), NumPosWanted(num_samples, positive_fraction))
        num_neg == Min(Len(negative), num_samples - num_pos)
    IN  { <<[m \in 1..Len(perm1) |-> positive[perm1[m] + 1]],
            [m \in 1..Len(perm2) |-> negative[perm2[m] + 1]]>> :
            perm1 \in RandpermPrefix(Len(positive), num_pos),
            perm2 \in RandpermPrefix(Len(negative), num_neg) }

\* label.fill_(value)
Fill(t, value) == [i \in 1..Len(t) |-> value]

\* label.scatter_(0, index, value)
Scatter(t, index, value) ==
    [i \in 1..Len(t) |-> IF \E m \in 1..Len(index) : index[m] + 1 = i THEN value ELSE t[i]]

MaxLabels == 4

SampleArgs ==
    [batch_size_per_image : {2, 3}, positive_fraction : { <<1, 2>>, <<1, 3>>, <<1, 1>> }]

not_samp_vars == <<early_vars, pool_vars, det_vars, ord_vars>>

InitSample ==
    /\ pc = "start"
    /\ error = "none"
    /\ EarlyIdle
    /\ PoolIdle
    /\ DetIdle
    /\ OrdIdle
    /\ \E n \in 0..MaxLabels : \E l \in [1..n -> {-1, 0, 1}] : \E a \in SampleArgs :
        /\ samp_in = [label |-> l, batch_size_per_image |-> a.batch_size_per_image,
                      positive_fraction |-> a.positive_fraction]
        /\ label = l
    /\ pos_idx = <<>>
    /\ neg_idx = <<>>

\* pos_idx, neg_idx = subsample_labels(label, batch_size_per_image, positive_fraction, 0)
SubsampleLabels ==
    /\ pc = "start"
    /\ \E pair \in subsample_labels(label, samp_in.batch_size_per_image, samp_in.positive_fraction, 0) :
        /\ pos_idx' = pair[1]
        /\ neg_idx' = pair[2]
    /\ pc' = "sampled"
    /\ UNCHANGED <<error, not_samp_vars, samp_in, label>>

\* fill with -1, then scatter the positive and the negative labels
OverwriteLabels ==
    /\ pc = "sampled"
    /\ label' = Scatter(Scatter(Fill(label, -1), pos_idx, 1), neg_idx, 0)
    /\ pc' = "done"
    /\ UNCHANGED <<error, not_samp_vars, samp_in, pos_idx, neg_idx>>

NextSample == SubsampleLabels \/ OverwriteLabels

SpecSample == InitSample /\ [][NextSample]_vars

\* C28: after the resampling of a label vector over {-1, 0, 1}, whatever
\* the random choice: the number of 1s is min(#positives,
\* int(batch_size_per_image * positive_fraction)), the number of 0s is
\* min(#negatives, batch_size_per_image - sampled positives), a label 1 (0)
\* was 1 (0) before, no anchor is sampled twice, an anchor labelled -1 is
\* never sampled and every anchor not sampled is -1.
C28_Resample ==
    pc = "done" =>
        LET before == samp_in.label
            n == Len(before)
            sampled == { pos_idx[m] + 1 : m \in 1..Len(pos_idx) } \cup { neg_idx[m] + 1 : m \in 1..Len(neg_idx) }
            ones == Min(Count(before, 1), NumPosWanted(samp_in.batch_size_per_image, samp_in.positive_fraction))
        IN  /\ Len(label) = n
            /\ Count(label, 1) = ones
            /\ Count(label, 0) = Min(Count(before, 0), samp_in.batch_size_per_image - ones)
            /\ \A i \in 1..n : label[i] = 1 => before[i] = 1
            /\ \A i \in 1..n : label[i] = 0 => before[i] = 0
            /\ Cardinality(sampled) = Len(pos_idx) + Len(neg_idx)
            /\ \A i \in sampled : before[i] # -1
            /\ \A i \in (1..n) \ sampled : label[i] = -1
            /\ \A i \in sampled : label[i] # -1

\* more positives and more negatives than are sampled, and an ignored anchor
C28_Witness ==
    /\ pc = "done"
    /\ samp_in.label = <<1, 0, 1, -1>>
    /\ samp_in.batch_size_per_image = 2
    /\ samp_in.positive_fraction = <<1, 2>>
    /\ label = <<-1, 0, 1, -1>>

\* not enough positives: the sample is filled with negatives
C28_WitnessFilled ==
    /\ pc = "done"
    /\ samp_in.batch_size_per_image = 3
    /\ samp_in.positive_fraction = <<1, 1>>
    /\ samp_in.label = <<0, 1, 0, 0>>
    /\ Count(label, 0) = 2
    /\ Count(label, -1) = 1

====
